---- MODULE Spec2Model ----
(***************************************************************************)
(* Model of the Zava retail sample: the WebSocket bridge of the inventory  *)
(* agent (app/api/app.py, websocket_ai_agent_inventory) and the pooled     *)
(* database providers behind the MCP tools (app/finance_postgres.py,       *)
(* app/supplier_postgres.py, app/sales_analysis_sqlite.py), and the REST   *)
(* handlers of app/api/app.py with the queries they and the provider       *)
(* methods run.                                                            *)
(***************************************************************************)
EXTENDS Integers, Sequences, FiniteSets, TLC

(***************************************************************************)
(* Bounds of the model.                                                    *)
(***************************************************************************)
\* longest event stream workflow.run_stream yields in one session
MaxEvents == 3
\* concurrent callers of one provider
NumTasks == 2
\* most rows and most columns of a query result
MaxRows == 2
MaxCols == 2
\* largest limit a request names, next to leaving it out
MaxLimit == 2
\* largest offset a request names
MaxOffset == 2
\* most rows of product_image_embeddings one product owns
MaxImages == 2

(***************************************************************************)
(* Python's Optional[T]: <<>> is None, <<v>> is the value v.               *)
(***************************************************************************)
NoneVal == <<>>
Some(v) == <<v>>
\* Python truthiness of an Optional[int]: None and 0 are falsy
Truthy(opt) == opt # NoneVal /\ opt[1] # 0

VARIABLES
    pc,               \* position of websocket_ai_agent_inventory
    sock,             \* the socket: "new", "open", "broken" (peer gone), "closed"
    request_data,     \* what the first client message parsed to
    full_message,     \* text of the ChatMessage handed to workflow.run_stream
    workflow_output,  \* the handler's local of that name ("None" until an output event)
    events,           \* the events workflow.run_stream has yielded, in order
    event_data,       \* the frame built for the event being forwarded
    frames,           \* the frames that reached the socket, in order
    stream,           \* run_stream: "idle", "running", "ended", "raised"
    lastOp,           \* the handler's last call on the socket
    closeCalls,       \* number of websocket.close() calls
    sendsFailed,      \* number of send_json calls that raised
    escaped           \* an exception left the handler

wsVars == <<pc, sock, request_data, full_message, workflow_output, events,
            event_data, frames, stream, lastOp, closeCalls, sendsFailed, escaped>>

VARIABLES
    deployment,       \* which process the provider lives in
    connection_pool,  \* provider.connection_pool (engine for SQLite): 0 is None, else a pool's id
    poolsCreated,     \* pools created so far; their ids are 1..poolsCreated
    serving,          \* the MCP server accepts tool calls
    kind,             \* per task: what it runs
    tpc,              \* per task: its position
    callPool,         \* per task: the pool object acquire() was called on
    conn,             \* per task: the local conn, 0 (None) or the id of the pool it belongs to
    checkedOut,       \* per task: its connection is out of its pool
    releases,         \* per task: successful releases of its connection
    fetched,          \* per task: the rows the data query returned, if it ran
    failedAt,         \* per task: the step of the query method that raised, if any
    result,           \* per task: the envelope the query method returned, if it returned
    raised            \* per task: an exception left the query method / the tool function

dbVars == <<deployment, connection_pool, poolsCreated, serving, kind, tpc, callPool, conn,
            checkedOut, releases, fetched, failedAt, result, raised>>

VARIABLES
    async_session_factory, \* app.py's global of that name is set (the lifespan has run)
    products,         \* retail.products with its category: per product_id a row
    inventory,        \* retail.inventory: per (store_id, product_id) NoneVal or Some(stock_level)
    suppliers,        \* retail.suppliers: per supplier_id a row
    endpoint,         \* the REST handler or provider method that served the last request
    request,          \* the parameters of that request
    raised_exc,       \* the exception that arose first while serving it, "none" if none did
    status_code,      \* HTTP status of the response (0: no response; provider methods have none)
    body              \* the response body, or the envelope a provider method returned

apiVars == <<async_session_factory, products, inventory, suppliers, endpoint, request,
             raised_exc, status_code, body>>

(***************************************************************************)
(* A run of the workflow of app/agents/stock.py or of                      *)
(* app/agents/src/github_shop_agents/stock.py.  A message is the executor  *)
(* that sent it ("input" for the argument of run_stream) and its content.  *)
(***************************************************************************)
VARIABLES
    workflow,         \* the module the workflow is built in
    run,              \* "idle", "running", "completed", "failed"
    inbox,            \* per executor, the messages delivered and not yet handled
    handling,         \* per executor, the message its handler is running on
    invoked,          \* per executor, the messages its handler was invoked with
    sent,             \* per executor, what it passed to ctx.send_message
    returned,         \* the executors whose handler has returned, in order
    outputs           \* what was passed to ctx.yield_output, and by whom

wfVars == <<workflow, run, inbox, handling, invoked, sent, returned, outputs>>

vars == <<wsVars, dbVars, apiVars, wfVars>>

\* the ids of the executors, as their constructors default them
ExecutorIds(w) ==
    IF w = "app.agents.stock"
    THEN <<"writer", "policy_executor", "summarizer">>
    ELSE <<"Stock Analyzer", "Context Analyzer", "Summarizer">>

AllExecutors ==
    {"writer", "policy_executor", "summarizer",
     "Stock Analyzer", "Context Analyzer", "Summarizer"}

\* stock.py 137-144: the workflow is built and not run
WorkflowBuilt(w) ==
    /\ workflow = w
    /\ run = "idle"
    /\ inbox = [e \in AllExecutors |-> <<>>]
    /\ handling = [e \in AllExecutors |-> <<>>]
    /\ invoked = [e \in AllExecutors |-> <<>>]
    /\ sent = [e \in AllExecutors |-> <<>>]
    /\ returned = <<>>
    /\ outputs = <<>>

\* app.py imports the workflow of app.agents.stock; no run is looked at
WorkflowIdle == WorkflowBuilt("app.agents.stock")

(***************************************************************************)
(* The first client message.  kind is what json.loads makes of the text:   *)
(* "object" (a dict), "nonobject" (valid JSON that is a list, number,      *)
(* string or null), "invalid" (JSONDecodeError).  For an object, has_msg   *)
(* says whether the key 'message' is present, and store_id is the value of *)
(* request_data.get('store_id').                                           *)
(***************************************************************************)
DefaultMessage == "Analyze inventory and recommend restocking priorities"

StoreIds == {NoneVal, Some(0), Some(7)}

ClientMessages ==
    [kind : {"object"}, has_msg : BOOLEAN, message : {"check stock"}, store_id : StoreIds]
    \cup [kind : {"nonobject", "invalid"}, has_msg : {FALSE}, message : {""},
          store_id : {NoneVal}]

NoRequest == [kind |-> "none", has_msg |-> FALSE, message |-> "", store_id |-> NoneVal]

\* request_data.get('message', <default>)
input_message(req) == IF req.has_msg THEN req.message ELSE DefaultMessage

\* app.py 1361-1364
FullMessage(req) ==
    IF Truthy(req.store_id)
    THEN input_message(req) \o "\n\nStore ID: " \o ToString(req.store_id[1])
    ELSE input_message(req)

(***************************************************************************)
(* Workflow events.  cls is the event's class; OtherEvent stands for every *)
(* class the isinstance chain does not name (the framework's status,       *)
(* warning, agent-update ... events).  data distinguishes output payloads; *)
(* json_ok says whether the payload the handler copies into the frame      *)
(* unchanged (event.data, or model_dump() of it) is JSON-serialisable.     *)
(***************************************************************************)
NamedEventClasses ==
    {"WorkflowStartedEvent", "WorkflowOutputEvent", "ExecutorInvokedEvent",
     "ExecutorCompletedEvent", "ExecutorFailedEvent"}

EventClasses == NamedEventClasses \cup {"OtherEvent"}

\* classes whose payload goes into the frame without str()
RawPayloadClasses ==
    {"WorkflowOutputEvent", "ExecutorInvokedEvent", "ExecutorCompletedEvent"}

Events ==
    [cls : {"WorkflowOutputEvent"}, data : {"out1", "out2"}, json_ok : BOOLEAN]
    \cup [cls : {"ExecutorInvokedEvent", "ExecutorCompletedEvent"},
          data : {"msg"}, json_ok : BOOLEAN]
    \cup [cls : {"WorkflowStartedEvent", "ExecutorFailedEvent", "OtherEvent"},
          data : {"msg"}, json_ok : {TRUE}]

\* FrameType with the fallback branch naming a type of its own
FrameTypeMutFallback(cls) ==
    CASE cls = "WorkflowStartedEvent"   -> "workflow_started"
      [] cls = "WorkflowOutputEvent"    -> "workflow_output"
      [] cls = "ExecutorInvokedEvent"   -> "step_started"
      [] cls = "ExecutorCompletedEvent" -> "step_completed"
      [] cls = "ExecutorFailedEvent"    -> "step_failed"
      [] OTHER                          -> "status"

\* FrameType with the two executor branches swapped
FrameTypeMutType(cls) ==
    CASE cls = "WorkflowStartedEvent"   -> "workflow_started"
      [] cls = "WorkflowOutputEvent"    -> "workflow_output"
      [] cls = "ExecutorInvokedEvent"   -> "step_completed"
      [] cls = "ExecutorCompletedEvent" -> "step_started"
      [] cls = "ExecutorFailedEvent"    -> "step_failed"
      [] OTHER                          -> "event"

FrameType(cls) ==
    CASE cls = "WorkflowStartedEvent"   -> "workflow_started"
      [] cls = "WorkflowOutputEvent"    -> "workflow_output"
      [] cls = "ExecutorInvokedEvent"   -> "step_started"
      [] cls = "ExecutorCompletedEvent" -> "step_completed"
      [] cls = "ExecutorFailedEvent"    -> "step_failed"
      [] OTHER                          -> "event"

\* a frame: its type, the index in events of the event it reports (0 for a
\* frame the handler sends on its own), the output it carries, and whether
\* json.dumps accepts it
Frame(type, ev, output, ok) == [type |-> type, ev |-> ev, output |-> output, json_ok |-> ok]

NoFrame == Frame("none", 0, "None", TRUE)

(***************************************************************************)
(* websocket.send_json(frame): json.dumps, then the send.  A frame that is *)
(* not serialisable raises TypeError before the socket is touched.  On an  *)
(* open socket the send goes through, or the peer is found gone and the    *)
(* send raises (WebSocketDisconnect or another exception, depending on the *)
(* server library); after that every send raises.                          *)
(***************************************************************************)
SendOutcomes(frame) ==
    IF ~frame.json_ok THEN {"TypeError"}
    ELSE IF sock = "open" THEN {"sent", "WebSocketDisconnect", "Exception"}
    ELSE {"WebSocketDisconnect", "Exception"}

\* the effect of one send_json call with the given outcome
Send(frame, outcome) ==
    /\ lastOp' = "send"
    /\ IF outcome = "sent"
       THEN /\ frames' = Append(frames, frame)
            /\ UNCHANGED <<sock, sendsFailed>>
       ELSE /\ sock' = IF outcome = "TypeError" THEN sock ELSE "broken"
            /\ sendsFailed' = sendsFailed + 1
            /\ UNCHANGED frames

(***************************************************************************)
(* The handler, one action per await.                                      *)
(***************************************************************************)
InitWS ==
    /\ pc = "accept"
    /\ sock = "new"
    /\ request_data = NoRequest
    /\ full_message = ""
    /\ workflow_output = "None"
    /\ events = <<>>
    /\ event_data = NoFrame
    /\ frames = <<>>
    /\ stream = "idle"
    /\ lastOp = "none"
    /\ closeCalls = 0
    /\ sendsFailed = 0
    /\ escaped = FALSE

\* app.py 1340: await websocket.accept(), outside the try
Accept ==
    /\ pc = "accept"
    /\ lastOp' = "accept"
    /\ \/ /\ sock' = "open"
          /\ pc' = "receive"
          /\ UNCHANGED escaped
       \/ /\ sock' = "broken"
          /\ pc' = "done"
          /\ escaped' = TRUE
    /\ UNCHANGED <<request_data, full_message, workflow_output, events, event_data,
                   frames, stream, closeCalls, sendsFailed>>
    /\ UNCHANGED <<dbVars, apiVars, wfVars>>

\* Receive taking every text that parses for a request: JSON that is not an
\* object goes on as an empty payload
ReceiveMutLenient ==
    /\ pc = "receive"
    /\ lastOp' = "receive"
    /\ \/ \E d \in ClientMessages :
            /\ request_data' = d
            /\ pc' = IF d.kind # "invalid" THEN "send_started" ELSE "send_ws_error"
            /\ UNCHANGED sock
       \/ /\ sock' = "broken"
          /\ pc' = "close"
          /\ UNCHANGED request_data
       \/ /\ pc' = "send_ws_error"
          /\ UNCHANGED <<sock, request_data>>
    /\ UNCHANGED <<full_message, workflow_output, events, event_data, frames, stream,
                   closeCalls, sendsFailed, escaped>>
    /\ UNCHANGED <<dbVars, apiVars, wfVars>>

\* app.py 1344-1350: receive_text, json.loads, the two .get calls
Receive ==
    /\ pc = "receive"
    /\ lastOp' = "receive"
    /\ \/ \E d \in ClientMessages :
            /\ request_data' = d
            /\ pc' = IF d.kind = "object" THEN "send_started" ELSE "send_ws_error"
            /\ UNCHANGED sock
       \/ \* the client disconnects first: WebSocketDisconnect
          /\ sock' = "broken"
          /\ pc' = "close"
          /\ UNCHANGED request_data
       \/ \* a binary frame: receive_text raises KeyError
          /\ pc' = "send_ws_error"
          /\ UNCHANGED <<sock, request_data>>
    /\ UNCHANGED <<full_message, workflow_output, events, event_data, frames, stream,
                   closeCalls, sendsFailed, escaped>>
    /\ UNCHANGED <<dbVars, apiVars, wfVars>>

\* OuterHandler with the disconnect handler returning past the finally block
OuterHandlerMutNoFinally(outcome) ==
    IF outcome = "WebSocketDisconnect" THEN "done" ELSE "send_ws_error"

\* where an exception raised by a send in the outer try block lands
OuterHandler(outcome) ==
    IF outcome = "WebSocketDisconnect" THEN "close" ELSE "send_ws_error"

\* SendStarted without the acknowledgment: the workflow starts unannounced
SendStartedMutSkip ==
    /\ pc = "send_started"
    /\ full_message' = FullMessage(request_data)
    /\ pc' = "stream"
    /\ UNCHANGED <<sock, request_data, workflow_output, events, event_data, frames,
                   stream, lastOp, closeCalls, sendsFailed, escaped>>
    /\ UNCHANGED <<dbVars, apiVars, wfVars>>

\* app.py 1353-1368: the started frame, then the ChatMessage
SendStarted ==
    /\ pc = "send_started"
    /\ \E o \in SendOutcomes(Frame("started", 0, "None", TRUE)) :
        /\ Send(Frame("started", 0, "None", TRUE), o)
        /\ IF o = "sent"
           THEN /\ full_message' = FullMessage(request_data)
                /\ pc' = "stream"
           ELSE /\ pc' = OuterHandler(o)
                /\ UNCHANGED full_message
    /\ UNCHANGED <<request_data, workflow_output, events, event_data, stream,
                   closeCalls, escaped>>
    /\ UNCHANGED <<dbVars, apiVars, wfVars>>

\* StreamYield keeping the first output: a later WorkflowOutputEvent does not
\* replace workflow_output
StreamYieldMutStale ==
    /\ pc = "stream"
    /\ Len(events) < MaxEvents
    /\ \E e \in Events :
        /\ events' = Append(events, e)
        /\ workflow_output' =
             IF e.cls = "WorkflowOutputEvent" /\ workflow_output = "None"
             THEN e.data ELSE workflow_output
        /\ event_data' =
             Frame(FrameType(e.cls), Len(events) + 1,
                   IF e.cls = "WorkflowOutputEvent" THEN e.data ELSE "None",
                   e.json_ok)
    /\ stream' = "running"
    /\ pc' = "send_event"
    /\ UNCHANGED <<sock, request_data, full_message, frames, lastOp, closeCalls,
                   sendsFailed, escaped>>
    /\ UNCHANGED <<dbVars, apiVars, wfVars>>

\* app.py 1370-1416: the stream yields an event and the isinstance chain
\* builds its frame
StreamYield ==
    /\ pc = "stream"
    /\ Len(events) < MaxEvents
    /\ \E e \in Events :
        /\ events' = Append(events, e)
        /\ workflow_output' =
             IF e.cls = "WorkflowOutputEvent" THEN e.data ELSE workflow_output
        /\ event_data' =
             Frame(FrameType(e.cls), Len(events) + 1,
                   IF e.cls = "WorkflowOutputEvent" THEN e.data ELSE "None",
                   e.json_ok)
    /\ stream' = "running"
    /\ pc' = "send_event"
    /\ UNCHANGED <<sock, request_data, full_message, frames, lastOp, closeCalls,
                   sendsFailed, escaped>>
    /\ UNCHANGED <<dbVars, apiVars, wfVars>>

\* app.py 1417: await websocket.send_json(event_data), inside the inner try
SendEvent ==
    /\ pc = "send_event"
    /\ \E o \in SendOutcomes(event_data) :
        /\ Send(event_data, o)
        /\ pc' = IF o = "sent" THEN "stream" ELSE "send_workflow_error"
    /\ UNCHANGED <<request_data, full_message, workflow_output, events, event_data,
                   stream, closeCalls, escaped>>
    /\ UNCHANGED <<dbVars, apiVars, wfVars>>

\* app.py 1370: the stream ends (StopAsyncIteration)
StreamEnd ==
    /\ pc = "stream"
    /\ stream' = "ended"
    /\ pc' = "send_completed"
    /\ UNCHANGED <<sock, request_data, full_message, workflow_output, events,
                   event_data, frames, lastOp, closeCalls, sendsFailed, escaped>>
    /\ UNCHANGED <<dbVars, apiVars, wfVars>>

\* StreamRaise with no handler around the loop: only the finally block runs
StreamRaiseMutEscapes ==
    /\ pc = "stream"
    /\ stream' = "raised"
    /\ pc' = "close"
    /\ escaped' = TRUE
    /\ UNCHANGED <<sock, request_data, full_message, workflow_output, events,
                   event_data, frames, lastOp, closeCalls, sendsFailed>>
    /\ UNCHANGED <<dbVars, apiVars, wfVars>>

\* app.py 1370, 1429: the stream raises an Exception
StreamRaise ==
    /\ pc = "stream"
    /\ stream' = "raised"
    /\ pc' = "send_workflow_error"
    /\ UNCHANGED <<sock, request_data, full_message, workflow_output, events,
                   event_data, frames, lastOp, closeCalls, sendsFailed, escaped>>
    /\ UNCHANGED <<dbVars, apiVars, wfVars>>

\* SendCompleted falling through into the error handler after a good send
SendCompletedMutThenError ==
    /\ pc = "send_completed"
    /\ \E o \in SendOutcomes(Frame("completed", 0, workflow_output, TRUE)) :
        Send(Frame("completed", 0, workflow_output, TRUE), o)
    /\ pc' = "send_workflow_error"
    /\ UNCHANGED <<request_data, full_message, workflow_output, events, event_data,
                   stream, closeCalls, escaped>>
    /\ UNCHANGED <<dbVars, apiVars, wfVars>>

\* app.py 1421-1427: the completed frame, still inside the inner try
SendCompleted ==
    /\ pc = "send_completed"
    /\ \E o \in SendOutcomes(Frame("completed", 0, workflow_output, TRUE)) :
        /\ Send(Frame("completed", 0, workflow_output, TRUE), o)
        /\ pc' = IF o = "sent" THEN "close" ELSE "send_workflow_error"
    /\ UNCHANGED <<request_data, full_message, workflow_output, events, event_data,
                   stream, closeCalls, escaped>>
    /\ UNCHANGED <<dbVars, apiVars, wfVars>>

\* app.py 1429-1435: except Exception as workflow_error: send the error frame;
\* an exception of this send leaves the inner handler for the outer ones
SendWorkflowError ==
    /\ pc = "send_workflow_error"
    /\ \E o \in SendOutcomes(Frame("error", 0, "None", TRUE)) :
        /\ Send(Frame("error", 0, "None", TRUE), o)
        /\ pc' = IF o = "sent" THEN "close" ELSE OuterHandler(o)
    /\ UNCHANGED <<request_data, full_message, workflow_output, events, event_data,
                   stream, closeCalls, escaped>>
    /\ UNCHANGED <<dbVars, apiVars, wfVars>>

\* app.py 1439-1448: except Exception: try to send an error frame, ignore failure
SendWsError ==
    /\ pc = "send_ws_error"
    /\ \E o \in SendOutcomes(Frame("error", 0, "None", TRUE)) :
        Send(Frame("error", 0, "None", TRUE), o)
    /\ pc' = "close"
    /\ UNCHANGED <<request_data, full_message, workflow_output, events, event_data,
                   stream, closeCalls, escaped>>
    /\ UNCHANGED <<dbVars, apiVars, wfVars>>

\* app.py 1449-1453: finally: try close, ignore failure
Close ==
    /\ pc = "close"
    /\ lastOp' = "close"
    /\ closeCalls' = closeCalls + 1
    /\ sock' = "closed"
    /\ pc' = "done"
    /\ UNCHANGED <<request_data, full_message, workflow_output, events, event_data,
                   frames, stream, sendsFailed, escaped>>
    /\ UNCHANGED <<dbVars, apiVars, wfVars>>

NextWS ==
    \/ Accept
    \/ Receive
    \/ SendStarted
    \/ StreamYield
    \/ SendEvent
    \/ StreamEnd
    \/ StreamRaise
    \/ SendCompleted
    \/ SendWorkflowError
    \/ SendWsError
    \/ Close

(***************************************************************************)
(* The database providers.  FinancePostgreSQLProvider and                  *)
(* SupplierPostgreSQLProvider share create_pool, get_connection,           *)
(* release_connection and the shape of every query method;                 *)
(* SalesAnalysisSQLiteProvider keeps an engine and a session factory.      *)
(* Each task is one caller of the provider: the server's start-up          *)
(* coroutine, an MCP tool call, PolicyExecutor.handle for one workflow     *)
(* message, or a REST request.                                             *)
(***************************************************************************)
Tasks == 1..NumTasks

\* asyncpg.create_pool(..., max_size=3)
PoolMaxSize == 3

(***************************************************************************)
(* Query results.  A Record has its column names in order (keys) and a     *)
(* value per column (val).  All records of one result carry the columns of *)
(* the query.                                                              *)
(***************************************************************************)
ColumnNames == <<"policy_id", "policy_name", "department", "is_active">>

Record(i, k) ==
    [keys |-> SubSeq(ColumnNames, 1, k),
     val  |-> [c \in {ColumnNames[j] : j \in 1..k} |-> <<i, c>>]]

\* what conn.fetch / result.fetchall can return: no rows, or 1..MaxRows
\* records of 1..MaxCols columns
ResultSets ==
    {<<>>} \cup {[i \in 1..m |-> Record(i, k)] : m \in 1..MaxRows, k \in 1..MaxCols}

NoRows == <<>>

\* the error envelope of every except branch: {"err": ..., "c": [], "r": [], "n": 0}
ErrorEnvelope == [err |-> TRUE, msg |-> FALSE, c |-> <<>>, r |-> <<>>, n |-> 0]

\* {"c": [], "r": [], "n": 0, "msg": ...}
EmptyEnvelope == [err |-> FALSE, msg |-> TRUE, c |-> <<>>, r |-> <<>>, n |-> 0]

\* PgEnvelope counting the columns where it should count the rows
PgEnvelopeMutCount(rows) ==
    IF rows = <<>> THEN EmptyEnvelope
    ELSE LET columns == rows[1].keys
             data_rows == [i \in 1..Len(rows) |->
                             [j \in 1..Len(columns) |-> rows[i].val[columns[j]]]]
         IN  [err |-> FALSE, msg |-> FALSE, c |-> columns, r |-> data_rows,
              n |-> Len(columns)]

\* finance_postgres.py 160-174 (the same lines close every query method of
\* both PostgreSQL providers)
PgEnvelope(rows) ==
    IF rows = <<>> THEN EmptyEnvelope
    ELSE LET columns == rows[1].keys
             data_rows == [i \in 1..Len(rows) |->
                             [j \in 1..Len(columns) |-> rows[i].val[columns[j]]]]
         IN  [err |-> FALSE, msg |-> FALSE, c |-> columns, r |-> data_rows,
              n |-> Len(data_rows)]

\* sales_analysis_sqlite.py 101-118: columns of the result, cells by position
SqliteEnvelope(rows) ==
    IF rows = <<>> THEN EmptyEnvelope
    ELSE LET columns == rows[1].keys
             data_rows == [i \in 1..Len(rows) |->
                             [j \in 1..Len(columns) |-> rows[i].val[rows[i].keys[j]]]]
         IN  [err |-> FALSE, msg |-> FALSE, c |-> columns, r |-> data_rows,
              n |-> Len(data_rows)]

(***************************************************************************)
(* Deployments.  "workflow": app/agents/stock.py, every PolicyExecutor     *)
(* .handle calls create_pool and then a query method.  "mcp_server":       *)
(* run_http_server awaits create_pool and then serves tool calls.          *)
(* "agent_tools": app/agents/finance_tools.py, tool functions over a       *)
(* provider nobody calls create_pool on.  "sales_server": the SQLite       *)
(* provider behind app/mcp/sales_server.py.  "rest_api": app/api/app.py,   *)
(* whose handlers use the global db_provider; app.py never assigns that    *)
(* name, so a request finds it unbound ("rest_api_unbound") unless         *)
(* something outside app.py has bound it to a provider, with or without a  *)
(* pool ("rest_api"), or to None ("rest_api_none").                        *)
(***************************************************************************)
Deployments ==
    {"workflow", "mcp_server", "agent_tools", "sales_server", "rest_api", "rest_api_none",
     "rest_api_unbound"}

KindsOf(d) ==
    CASE d = "workflow"     -> {"handle"}
      [] d = "mcp_server"   -> {"startup", "tool"}
      [] d = "agent_tools"  -> {"tool"}
      [] d = "sales_server" -> {"sqlite_startup", "sqlite"}
      [] d \in {"rest_api", "rest_api_none", "rest_api_unbound"} -> {"rest"}
      [] OTHER              -> {}

\* the kinds that run a provider query method
QueryKinds == {"handle", "tool", "sqlite"}

InFlight(t) == tpc[t] \notin {"idle", "done"}

DBIdle ==
    /\ serving = FALSE
    /\ kind = [t \in Tasks |-> "none"]
    /\ tpc = [t \in Tasks |-> "idle"]
    /\ callPool = [t \in Tasks |-> 0]
    /\ conn = [t \in Tasks |-> 0]
    /\ checkedOut = [t \in Tasks |-> FALSE]
    /\ releases = [t \in Tasks |-> 0]
    /\ fetched = [t \in Tasks |-> <<>>]
    /\ failedAt = [t \in Tasks |-> "none"]
    /\ result = [t \in Tasks |-> <<>>]
    /\ raised = [t \in Tasks |-> FALSE]

\* finance_postgres.py 37-39: a new provider has no pool
InitDB ==
    /\ deployment \in Deployments
    /\ \/ connection_pool = 0 /\ poolsCreated = 0
       \/ deployment = "rest_api" /\ connection_pool = 1 /\ poolsCreated = 1
    /\ DBIdle

\* no provider in use (the WebSocket handler is looked at alone)
DBOff ==
    /\ deployment = "off"
    /\ connection_pool = 0
    /\ poolsCreated = 0
    /\ DBIdle

\* a caller arrives
TaskStart(t) ==
    /\ tpc[t] = "idle"
    /\ \E k \in KindsOf(deployment) :
        /\ k \in {"startup", "sqlite_startup"} =>
              /\ ~serving
              /\ \A u \in Tasks : kind[u] # k
        /\ (k \in {"tool", "sqlite"} /\ deployment # "agent_tools") => serving
        /\ kind' = [kind EXCEPT ![t] = k]
        /\ tpc' = [tpc EXCEPT ![t] =
                     CASE k \in {"handle", "startup"} -> "create_pool"
                       [] k = "sqlite_startup"        -> "sqlite_create_pool"
                       [] k = "tool"                  -> "get_connection"
                       [] k = "sqlite"                -> "get_session"
                       [] k = "rest"                  -> "rest_get_connection"]
    /\ UNCHANGED <<deployment, connection_pool, poolsCreated, serving, callPool, conn,
                   checkedOut, releases, fetched, failedAt, result, raised>>
    /\ UNCHANGED <<wsVars, apiVars, wfVars>>

\* CreatePoolCheck testing and claiming the pool in one step, as a lock would
CreatePoolCheckMutAtomic(t) ==
    /\ tpc[t] = "create_pool"
    /\ IF connection_pool = 0
       THEN /\ poolsCreated' = poolsCreated + 1
            /\ connection_pool' = poolsCreated + 1
       ELSE UNCHANGED <<connection_pool, poolsCreated>>
    /\ serving' = (serving \/ kind[t] = "startup")
    /\ tpc' = [tpc EXCEPT ![t] = IF kind[t] = "startup" THEN "done" ELSE "get_connection"]
    /\ UNCHANGED <<deployment, kind, callPool, conn, checkedOut, releases, fetched,
                   failedAt, result, raised>>
    /\ UNCHANGED <<wsVars, apiVars, wfVars>>

\* finance_postgres.py 56: if self.connection_pool is None, up to the await
\* of asyncpg.create_pool at 68; otherwise create_pool returns at once
CreatePoolCheck(t) ==
    /\ tpc[t] = "create_pool"
    /\ IF connection_pool = 0
       THEN /\ tpc' = [tpc EXCEPT ![t] = "create_pool_await"]
            /\ UNCHANGED serving
       ELSE /\ tpc' = [tpc EXCEPT ![t] =
                         IF kind[t] = "startup" THEN "done" ELSE "get_connection"]
            /\ serving' = (serving \/ kind[t] = "startup")
    /\ UNCHANGED <<deployment, connection_pool, poolsCreated, kind, callPool, conn,
                   checkedOut, releases, fetched, failedAt, result, raised>>
    /\ UNCHANGED <<wsVars, apiVars, wfVars>>

\* finance_postgres.py 68-82: asyncpg.create_pool returns and the pool is
\* stored, or it raises and create_pool re-raises to its caller
CreatePoolAwait(t) ==
    /\ tpc[t] = "create_pool_await"
    /\ \/ /\ poolsCreated' = poolsCreated + 1
          /\ connection_pool' = poolsCreated + 1
          /\ serving' = (serving \/ kind[t] = "startup")
          /\ tpc' = [tpc EXCEPT ![t] =
                       IF kind[t] = "startup" THEN "done" ELSE "get_connection"]
       \/ /\ tpc' = [tpc EXCEPT ![t] = "done"]
          /\ UNCHANGED <<connection_pool, poolsCreated, serving>>
    /\ UNCHANGED <<deployment, kind, callPool, conn, checkedOut, releases, fetched,
                   failedAt, result, raised>>
    /\ UNCHANGED <<wsVars, apiVars, wfVars>>

\* sales_analysis_sqlite.py 45-66: create_async_engine is not awaited, so
\* the test and the assignment are one step
SqliteCreatePool(t) ==
    /\ tpc[t] = "sqlite_create_pool"
    /\ \/ /\ IF connection_pool = 0
             THEN /\ poolsCreated' = poolsCreated + 1
                  /\ connection_pool' = poolsCreated + 1
             ELSE UNCHANGED <<connection_pool, poolsCreated>>
          /\ serving' = TRUE
       \/ /\ connection_pool = 0
          /\ UNCHANGED <<connection_pool, poolsCreated, serving>>
    /\ tpc' = [tpc EXCEPT ![t] = "done"]
    /\ UNCHANGED <<deployment, kind, callPool, conn, checkedOut, releases, fetched,
                   failedAt, result, raised>>
    /\ UNCHANGED <<wsVars, apiVars, wfVars>>

\* the query method returns an error envelope from its except branch
ReturnsError(t, step) ==
    /\ failedAt' = [failedAt EXCEPT ![t] = step]
    /\ result' = [result EXCEPT ![t] = Some(ErrorEnvelope)]

\* finance_postgres.py 119-121, 91-99: conn = None; get_connection raises
\* without a pool (caught at 176, nothing to release), else awaits acquire
GetConnection(t) ==
    /\ tpc[t] = "get_connection"
    /\ IF connection_pool = 0
       THEN /\ ReturnsError(t, "get_connection")
            /\ tpc' = [tpc EXCEPT ![t] = "done"]
            /\ UNCHANGED callPool
       ELSE /\ callPool' = [callPool EXCEPT ![t] = connection_pool]
            /\ tpc' = [tpc EXCEPT ![t] = "acquire"]
            /\ UNCHANGED <<failedAt, result>>
    /\ UNCHANGED <<deployment, connection_pool, poolsCreated, serving, kind, conn,
                   checkedOut, releases, fetched, raised>>
    /\ UNCHANGED <<wsVars, apiVars, wfVars>>

HeldOf(p) == {u \in Tasks : checkedOut[u] /\ conn[u] = p}

\* finance_postgres.py 98-102: acquire returns a connection of the pool it
\* was called on (when the pool has one free), or raises and get_connection
\* raises RuntimeError, caught at 176
Acquire(t) ==
    /\ tpc[t] = "acquire"
    /\ \/ /\ Cardinality(HeldOf(callPool[t])) < PoolMaxSize
          /\ conn' = [conn EXCEPT ![t] = callPool[t]]
          /\ checkedOut' = [checkedOut EXCEPT ![t] = TRUE]
          /\ tpc' = [tpc EXCEPT ![t] = "set_config"]
          /\ UNCHANGED <<failedAt, result>>
       \/ /\ ReturnsError(t, "get_connection")
          /\ tpc' = [tpc EXCEPT ![t] = "done"]
          /\ UNCHANGED <<conn, checkedOut>>
    /\ UNCHANGED <<deployment, connection_pool, poolsCreated, serving, kind, callPool,
                   releases, fetched, raised>>
    /\ UNCHANGED <<wsVars, apiVars, wfVars>>

\* finance_postgres.py 122-124: set_config of the RLS variable
SetConfig(t) ==
    /\ tpc[t] = "set_config"
    /\ \/ /\ tpc' = [tpc EXCEPT ![t] = "fetch"]
          /\ UNCHANGED <<failedAt, result>>
       \/ /\ ReturnsError(t, "set_config")
          /\ tpc' = [tpc EXCEPT ![t] = "release"]
    /\ UNCHANGED <<deployment, connection_pool, poolsCreated, serving, kind, callPool,
                   conn, checkedOut, releases, fetched, raised>>
    /\ UNCHANGED <<wsVars, apiVars, wfVars>>

\* finance_postgres.py 158-186: the data query and the envelope
Fetch(t) ==
    /\ tpc[t] = "fetch"
    /\ \/ \E rows \in ResultSets :
            /\ fetched' = [fetched EXCEPT ![t] = Some(rows)]
            /\ result' = [result EXCEPT ![t] = Some(PgEnvelope(rows))]
            /\ UNCHANGED failedAt
       \/ /\ ReturnsError(t, "fetch")
          /\ UNCHANGED fetched
    /\ tpc' = [tpc EXCEPT ![t] = "release"]
    /\ UNCHANGED <<deployment, connection_pool, poolsCreated, serving, kind, callPool,
                   conn, checkedOut, releases, raised>>
    /\ UNCHANGED <<wsVars, apiVars, wfVars>>

\* the MCP tool functions wrap the call in try/except Exception and return
\* an error envelope (finance_server.py 80-97, supplier_mcp_server.py
\* 137-151); PolicyExecutor.handle (stock.py 93) and the REST handlers do not
CallerCatches(t) == kind[t] = "tool"

\* finance_postgres.py 187-189, 104-107: finally: release_connection(conn)
\* calls self.connection_pool.release(conn) on the pool the provider holds
\* now.  A pool takes back only its own connections; handed another pool's
\* connection, release raises InterfaceError, which leaves the finally block
\* in place of the envelope.
Release(t) ==
    /\ tpc[t] = "release"
    /\ IF connection_pool = 0
       THEN UNCHANGED <<checkedOut, releases, result, raised>>
       ELSE IF connection_pool = conn[t]
       THEN /\ checkedOut' = [checkedOut EXCEPT ![t] = FALSE]
            /\ releases' = [releases EXCEPT ![t] = @ + 1]
            /\ UNCHANGED <<result, raised>>
       ELSE /\ raised' = [raised EXCEPT ![t] = TRUE]
            /\ result' = [result EXCEPT ![t] =
                            IF CallerCatches(t) THEN Some(ErrorEnvelope) ELSE <<>>]
            /\ UNCHANGED <<checkedOut, releases>>
    /\ tpc' = [tpc EXCEPT ![t] = "done"]
    /\ UNCHANGED <<deployment, connection_pool, poolsCreated, serving, kind, callPool,
                   conn, fetched, failedAt>>
    /\ UNCHANGED <<wsVars, apiVars, wfVars>>

\* sales_analysis_sqlite.py 76-82, 95-96: get_session raises without a
\* session factory (caught at 119), else a session is opened
GetSession(t) ==
    /\ tpc[t] = "get_session"
    /\ IF connection_pool = 0
       THEN /\ ReturnsError(t, "get_connection")
            /\ tpc' = [tpc EXCEPT ![t] = "done"]
            /\ UNCHANGED <<conn, checkedOut>>
       ELSE /\ conn' = [conn EXCEPT ![t] = connection_pool]
            /\ checkedOut' = [checkedOut EXCEPT ![t] = TRUE]
            /\ tpc' = [tpc EXCEPT ![t] = "execute"]
            /\ UNCHANGED <<failedAt, result>>
    /\ UNCHANGED <<deployment, connection_pool, poolsCreated, serving, kind, callPool,
                   releases, fetched, raised>>
    /\ UNCHANGED <<wsVars, apiVars, wfVars>>

\* sales_analysis_sqlite.py 96-130: execute, fetchall, the envelope; leaving
\* the async with block closes the session on either path
Execute(t) ==
    /\ tpc[t] = "execute"
    /\ \/ \E rows \in ResultSets :
            /\ fetched' = [fetched EXCEPT ![t] = Some(rows)]
            /\ result' = [result EXCEPT ![t] = Some(SqliteEnvelope(rows))]
            /\ UNCHANGED failedAt
       \/ /\ ReturnsError(t, "fetch")
          /\ UNCHANGED fetched
    /\ checkedOut' = [checkedOut EXCEPT ![t] = FALSE]
    /\ releases' = [releases EXCEPT ![t] = @ + 1]
    /\ tpc' = [tpc EXCEPT ![t] = "done"]
    /\ UNCHANGED <<deployment, connection_pool, poolsCreated, serving, kind, callPool,
                   conn, raised>>
    /\ UNCHANGED <<wsVars, apiVars, wfVars>>

\* app.py 1011: conn = await db_provider.get_connection(), before the try:
\* NameError when db_provider is unbound, RuntimeError without a pool; both
\* leave the handler with nothing acquired
RestGetConnection(t) ==
    /\ tpc[t] = "rest_get_connection"
    /\ IF deployment = "rest_api_unbound" \/ connection_pool = 0
       THEN /\ tpc' = [tpc EXCEPT ![t] = "done"]
            /\ UNCHANGED callPool
       ELSE /\ callPool' = [callPool EXCEPT ![t] = connection_pool]
            /\ tpc' = [tpc EXCEPT ![t] = "rest_acquire"]
    /\ UNCHANGED <<deployment, connection_pool, poolsCreated, serving, kind, conn,
                   checkedOut, releases, fetched, failedAt, result, raised>>
    /\ UNCHANGED <<wsVars, apiVars, wfVars>>

\* app.py 1011: the acquire returns a connection or raises (still before the try)
RestAcquire(t) ==
    /\ tpc[t] = "rest_acquire"
    /\ \/ /\ Cardinality(HeldOf(callPool[t])) < PoolMaxSize
          /\ conn' = [conn EXCEPT ![t] = callPool[t]]
          /\ checkedOut' = [checkedOut EXCEPT ![t] = TRUE]
          /\ tpc' = [tpc EXCEPT ![t] = "rest_query"]
       \/ /\ tpc' = [tpc EXCEPT ![t] = "done"]
          /\ UNCHANGED <<conn, checkedOut>>
    /\ UNCHANGED <<deployment, connection_pool, poolsCreated, serving, kind, callPool,
                   releases, fetched, failedAt, result, raised>>
    /\ UNCHANGED <<wsVars, apiVars, wfVars>>

\* app.py 1013-1173: the queries of the handler; the response is built, or
\* an exception becomes HTTPException(500); the finally block follows
RestQuery(t) ==
    /\ tpc[t] = "rest_query"
    /\ \/ \E rows \in ResultSets : fetched' = [fetched EXCEPT ![t] = Some(rows)]
       \/ UNCHANGED fetched
    /\ tpc' = [tpc EXCEPT ![t] = "release"]
    /\ UNCHANGED <<deployment, connection_pool, poolsCreated, serving, kind, callPool,
                   conn, checkedOut, releases, failedAt, result, raised>>
    /\ UNCHANGED <<wsVars, apiVars, wfVars>>

NextDB ==
    \/ \E t \in Tasks : TaskStart(t)
    \/ \E t \in Tasks : CreatePoolCheck(t)
    \/ \E t \in Tasks : CreatePoolAwait(t)
    \/ \E t \in Tasks : SqliteCreatePool(t)
    \/ \E t \in Tasks : GetConnection(t)
    \/ \E t \in Tasks : Acquire(t)
    \/ \E t \in Tasks : SetConfig(t)
    \/ \E t \in Tasks : Fetch(t)
    \/ \E t \in Tasks : Release(t)
    \/ \E t \in Tasks : GetSession(t)
    \/ \E t \in Tasks : Execute(t)
    \/ \E t \in Tasks : RestGetConnection(t)
    \/ \E t \in Tasks : RestAcquire(t)
    \/ \E t \in Tasks : RestQuery(t)

(***************************************************************************)
(* The data the REST handlers and the provider methods query.  A text is   *)
(* the sequence of its characters, so that LOWER, UPPER and LIKE '%q%' are *)
(* computed on it.  Money is kept in thousandths of a currency unit, so    *)
(* that round(x, 2) has something to round.                                *)
(***************************************************************************)
UpperCase ==
    <<"A", "B", "C", "D", "E", "F", "G", "H", "I", "J", "K", "L", "M",
      "N", "O", "P", "Q", "R", "S", "T", "U", "V", "W", "X", "Y", "Z">>
LowerCase ==
    <<"a", "b", "c", "d", "e", "f", "g", "h", "i", "j", "k", "l", "m",
      "n", "o", "p", "q", "r", "s", "t", "u", "v", "w", "x", "y", "z">>

LetterIdx == 1..Len(UpperCase)

\* SQL LOWER(text)
LOWER(text) ==
    [i \in 1..Len(text) |->
        IF \E k \in LetterIdx : UpperCase[k] = text[i]
        THEN LowerCase[CHOOSE k \in LetterIdx : UpperCase[k] = text[i]]
        ELSE text[i]]

\* SQL UPPER(text)
UPPER(text) ==
    [i \in 1..Len(text) |->
        IF \E k \in LetterIdx : LowerCase[k] = text[i]
        THEN UpperCase[CHOOSE k \in LetterIdx : LowerCase[k] = text[i]]
        ELSE text[i]]

\* text LIKE '%q%' for a q without wildcard characters
Contains(text, q) ==
    \E i \in 0..(Len(text) - Len(q)) : SubSeq(text, i + 1, i + Len(q)) = q

\* Python truthiness of an Optional[str]: None and "" are falsy
TextTruthy(opt) == opt # NoneVal /\ opt[1] # <<>>

\* Python round() on a quotient num/den of naturals: to the nearest integer,
\* a tie to the even one
RoundHalfEven(num, den) ==
    LET q == num \div den
        r == num % den
    IN  IF 2 * r < den THEN q
        ELSE IF 2 * r > den THEN q + 1
        ELSE IF q % 2 = 0 THEN q ELSE q + 1

\* round(x, 2) of an amount in thousandths
Round2(m) == RoundHalfEven(m, 10) * 10

RECURSIVE SetSum(_, _)
\* the sum of f over the set S
SetSum(f, S) ==
    IF S = {} THEN 0
    ELSE LET x == CHOOSE y \in S : TRUE
         IN  f[x] + SetSum(f, S \ {x})

RECURSIVE SeqSum(_)
SeqSum(s) == IF s = <<>> THEN 0 ELSE s[1] + SeqSum(Tail(s))

\* the first n elements of a sequence (LIMIT n)
Take(s, n) == SubSeq(s, 1, IF n < Len(s) THEN n ELSE Len(s))

\* the elements after the first n (OFFSET n)
Drop(s, n) == SubSeq(s, n + 1, Len(s))

(***************************************************************************)
(* Tables.  Stores, products and suppliers have fixed names; the store and *)
(* product names sort as their ids do.  A product owns 0..MaxImages rows   *)
(* of product_image_embeddings, whose key is (product_id, image_url).      *)
(***************************************************************************)
Stores == {1, 2}
ProductIds == {1, 2}
SupplierIds == {1, 2}

product_name == << <<"A", "x", "e">>, <<"B", "o", "w">> >>
sku == << <<"S", "1">>, <<"S", "2">> >>
product_description == << Some(<<"a", "x">>), NoneVal >>
\* products.supplier_id, NULL for the second product
product_supplier == << Some(1), NoneVal >>
supplier_name == << <<"A", "c", "m", "e">>, <<"Z", "e", "d">> >>

\* categories.category_name, in the order ORDER BY gives them
SortedCategoryNames == << <<"B", "a", "g">>, <<"T", "e", "n", "t">> >>
CategoryNames == {SortedCategoryNames[i] : i \in 1..Len(SortedCategoryNames)}
CategoryRank(c) == CHOOSE i \in 1..Len(SortedCategoryNames) : SortedCategoryNames[i] = c

\* products.cost and products.base_price, NULL or thousandths
Costs == {NoneVal, Some(1004)}
Prices == {NoneVal, Some(2506)}
ImageCounts == 0..MaxImages
\* inventory.stock_level of a record, or no record for the pair
StockLevels == {NoneVal, Some(9), Some(10)}

ProductRows ==
    [category_name : CategoryNames, discontinued : BOOLEAN, cost : Costs,
     base_price : Prices, images : ImageCounts]

SupplierRows == [active_status : BOOLEAN, preferred_vendor : BOOLEAN]

\* one database content, for the specifications that vary something else
SampleProducts ==
    [p \in ProductIds |->
        [category_name |-> SortedCategoryNames[p], discontinued |-> (p = 2),
         cost |-> Some(1004), base_price |-> Some(2506), images |-> 1]]

SampleInventory ==
    [sp \in Stores \X ProductIds |-> IF sp = <<2, 2>> THEN NoneVal ELSE Some(8 + sp[1])]

SampleSuppliers ==
    [s \in SupplierIds |-> [active_status |-> (s = 1), preferred_vendor |-> FALSE]]

\* the parameters a request can carry; NoneVal is a parameter left out
NoParams ==
    [store_id |-> NoneVal, product_id |-> NoneVal, category |-> NoneVal,
     low_stock_only |-> FALSE, low_stock_threshold |-> NoneVal, limit |-> NoneVal,
     offset |-> NoneVal, supplier_id |-> NoneVal, discontinued |-> NoneVal,
     search |-> NoneVal, sku |-> NoneVal, name_query |-> NoneVal]

NoBody == [detail |-> "none"]

\* the body of an HTTPException the handler raised (handled) and of the
\* response the framework gives when an exception leaves the handler
ErrorBody(handled) ==
    [detail |-> IF handled THEN "HTTPException" ELSE "Internal Server Error"]

ApiIdle ==
    /\ endpoint = "none"
    /\ request = NoParams
    /\ raised_exc = "none"
    /\ status_code = 0
    /\ body = NoBody

\* no REST request and no tool call is looked at
ApiOff ==
    /\ async_session_factory = FALSE
    /\ products = SampleProducts
    /\ inventory = SampleInventory
    /\ suppliers = SampleSuppliers
    /\ ApiIdle

(***************************************************************************)
(* The REST handlers of app/api/app.py.  A handler runs from the request   *)
(* to the response in one step.  What is raised on the way is a name:      *)
(* "none", a Python exception class, or "HTTP<status>" for an              *)
(* HTTPException with that status.                                         *)
(***************************************************************************)
HTTPExceptions == {"HTTP404", "HTTP500", "HTTP503"}

\* the global db_provider: no binding, bound to None, bound to a provider
ProviderUnbound == deployment = "rest_api_unbound"
ProviderIsNone == deployment = "rest_api_none"

\* FastAPI answers an HTTPException with its status and anything else that
\* leaves the handler with 500 Internal Server Error
StatusOf(exc) ==
    CASE exc = "none"    -> 200
      [] exc = "HTTP404" -> 404
      [] exc = "HTTP503" -> 503
      [] OTHER           -> 500

First(e1, e2) == IF e1 # "none" THEN e1 ELSE e2

\* app.py 487, 573, 671, 750: if not db_provider or not db_provider.connection_pool
PoolPrecheck ==
    IF ProviderUnbound THEN "NameError"
    ELSE IF ProviderIsNone \/ connection_pool = 0 THEN "HTTP503"
    ELSE "none"

\* app.py 832, 909: if db_provider is None
NonePrecheck ==
    IF ProviderUnbound THEN "NameError"
    ELSE IF ProviderIsNone THEN "HTTP500"
    ELSE "none"

\* await db_provider.get_connection(): the name lookup, the attribute
\* lookup, finance_postgres.py 93-96 (no pool) and 98-102 (acquire raises)
GetConnectionExc(acquire_ok) ==
    IF ProviderUnbound THEN "NameError"
    ELSE IF ProviderIsNone THEN "AttributeError"
    ELSE IF connection_pool = 0 \/ ~acquire_ok THEN "RuntimeError"
    ELSE "none"

\* the statements under the connection: a query raises, or the handler
\* raises HTTPException(404), or neither
QueryExc(query_ok, notfound) ==
    IF ~query_ok THEN "PostgresError"
    ELSE IF notfound THEN "HTTP404"
    ELSE "none"

\* what the statements of the try raise: get_connection, then the queries
TryBody(acquire_ok, query_ok, notfound) ==
    First(GetConnectionExc(acquire_ok), QueryExc(query_ok, notfound))

\* except Exception -> HTTPException(500) alone (HTTPException is an Exception)
CaughtAll(exc) == IF exc = "none" THEN "none" ELSE "HTTP500"

\* CaughtKeepHttp without the clause "except HTTPException: raise"
CaughtKeepHttpMutRewrites(exc) ==
    CaughtAll(exc)

\* app.py 654-661: except HTTPException: raise, except Exception -> 500
CaughtKeepHttp(exc) ==
    IF exc \in HTTPExceptions THEN exc ELSE CaughtAll(exc)

\* the response: 200 with the body the handler built, or the status of exc,
\* the exception that leaves the handler; arose is what was raised first
Serve(name, rq, arose, exc, ok_body) ==
    /\ endpoint = "none"
    /\ endpoint' = name
    /\ request' = rq
    /\ raised_exc' = arose
    /\ status_code' = StatusOf(exc)
    /\ body' = IF exc = "none" THEN ok_body ELSE ErrorBody(exc \in HTTPExceptions)
    /\ UNCHANGED <<async_session_factory, products, inventory, suppliers>>
    /\ UNCHANGED <<wsVars, dbVars, wfVars>>

\* app.py 324-336
health_check ==
    LET db_status ==
            IF ~ProviderIsNone /\ connection_pool # 0 THEN "connected" ELSE "disconnected"
        exc == IF ProviderUnbound THEN "NameError" ELSE "none"
    IN  Serve("health_check", NoParams, exc, exc,
              [status |-> "healthy", service |-> "github-api", database |-> db_status])

\* app.py 290-305 under "async with" in a try: no session factory, or the
\* statement raises
SessionExc(query_ok) ==
    IF ~async_session_factory THEN "RuntimeError"
    ELSE IF ~query_ok THEN "SQLAlchemyError"
    ELSE "none"

\* app.py 340-433
get_stores ==
    \E query_ok \in BOOLEAN :
        Serve("get_stores", NoParams, SessionExc(query_ok), CaughtAll(SessionExc(query_ok)),
              [total |-> Cardinality(Stores)])

\* app.py 437-474
get_categories ==
    \E query_ok \in BOOLEAN :
        Serve("get_categories", NoParams, SessionExc(query_ok), CaughtAll(SessionExc(query_ok)),
              [total |-> Cardinality(CategoryNames)])

\* app.py 478-560: no HTTPException is raised under the try
get_featured_products ==
    \E acquire_ok, query_ok \in BOOLEAN :
        Serve("get_featured_products", NoParams,
              First(PoolPrecheck, TryBody(acquire_ok, query_ok, FALSE)),
              First(PoolPrecheck, CaughtAll(TryBody(acquire_ok, query_ok, FALSE))),
              [total |-> Cardinality({p \in ProductIds : ~products[p].discontinued})])

\* the categories a path names
CategoryPaths == {<<"t", "E", "n", "t">>, <<"B", "a", "g">>, <<"H", "a", "t">>}

\* app.py 563-661
get_products_by_category ==
    \E category \in CategoryPaths, acquire_ok, query_ok \in BOOLEAN :
        LET total_count ==
                Cardinality({p \in ProductIds :
                    /\ ~products[p].discontinued
                    /\ LOWER(products[p].category_name) = LOWER(category)})
        IN  Serve("get_products_by_category", [NoParams EXCEPT !.category = Some(category)],
                  First(PoolPrecheck, TryBody(acquire_ok, query_ok, total_count = 0)),
                  First(PoolPrecheck,
                        CaughtKeepHttp(TryBody(acquire_ok, query_ok, total_count = 0))),
                  [total |-> total_count])

\* the ids a path names: a product, and an id no product has
ProductIdPaths == ProductIds \cup {3}

\* app.py 665-741
get_product_by_id ==
    \E product_id \in ProductIdPaths, acquire_ok, query_ok \in BOOLEAN :
        Serve("get_product_by_id", [NoParams EXCEPT !.product_id = Some(product_id)],
              First(PoolPrecheck, TryBody(acquire_ok, query_ok, product_id \notin ProductIds)),
              First(PoolPrecheck, CaughtKeepHttp(TryBody(acquire_ok, query_ok, product_id \notin ProductIds))),
              [total |-> 1])

SkuPaths == {<<"S", "1">>, <<"S", "9">>}

\* app.py 744-822
get_product_by_sku ==
    \E q \in SkuPaths, acquire_ok, query_ok \in BOOLEAN :
        Serve("get_product_by_sku", [NoParams EXCEPT !.sku = Some(q)],
              First(PoolPrecheck, TryBody(acquire_ok, query_ok, ~\E p \in ProductIds : sku[p] = q)),
              First(PoolPrecheck, CaughtKeepHttp(TryBody(acquire_ok, query_ok, ~\E p \in ProductIds : sku[p] = q))),
              [total |-> 1])

\* app.py 825-900
get_top_categories ==
    \E acquire_ok, query_ok \in BOOLEAN :
        Serve("get_top_categories", NoParams,
              First(NonePrecheck, TryBody(acquire_ok, query_ok, FALSE)),
              First(NonePrecheck, CaughtAll(TryBody(acquire_ok, query_ok, FALSE))),
              [total |-> Cardinality(CategoryNames)])

\* app.py 903-988
get_suppliers ==
    \E acquire_ok, query_ok \in BOOLEAN :
        Serve("get_suppliers", NoParams,
              First(NonePrecheck, TryBody(acquire_ok, query_ok, FALSE)),
              First(NonePrecheck, CaughtAll(TryBody(acquire_ok, query_ok, FALSE))),
              [total |-> Cardinality(SupplierIds)])

(***************************************************************************)
(* GET /api/management/inventory, app.py 991-1175.                         *)
(***************************************************************************)
\* low_stock_threshold: int = 10
DefaultThreshold == 10
\* limit: int = 100
DefaultLimit == 100

OptionalOr(opt, default) == IF opt = NoneVal THEN default ELSE opt[1]

InventoryRequests ==
    {[NoParams EXCEPT !.store_id = s, !.product_id = p, !.category = c,
                      !.low_stock_only = o, !.low_stock_threshold = t, !.limit = l] :
        s \in {NoneVal, Some(1)}, p \in {NoneVal, Some(2)},
        c \in {NoneVal, Some(<<>>), Some(<<"t", "E", "n", "t">>)},
        o \in BOOLEAN, t \in {NoneVal, Some(11)},
        l \in {NoneVal} \cup {Some(n) : n \in 1..MaxLimit}}

\* FROM retail.inventory i INNER JOIN stores, products, categories,
\* product_types: one row per inventory record
InventoryRecords == {sp \in Stores \X ProductIds : inventory[sp] # NoneVal}

stock_level(sp) == inventory[sp][1]

\* InventoryWhere comparing the category as it is written
InventoryWhereMutCase(rq, sp) ==
    /\ rq.store_id # NoneVal => sp[1] = rq.store_id[1]
    /\ rq.product_id # NoneVal => sp[2] = rq.product_id[1]
    /\ TextTruthy(rq.category) => products[sp[2]].category_name = rq.category[1]

\* app.py 1016-1036: where_clause, for the record of store sp[1] and product sp[2]
InventoryWhere(rq, sp) ==
    /\ rq.store_id # NoneVal => sp[1] = rq.store_id[1]
    /\ rq.product_id # NoneVal => sp[2] = rq.product_id[1]
    /\ TextTruthy(rq.category) =>
          LOWER(products[sp[2]].category_name) = LOWER(rq.category[1])

\* SUM(expr) over the rows R, where term[sp] is NoneVal for a NULL: NULL
\* when no row has a value
SqlSum(term, R) ==
    LET valued == {sp \in R : term[sp] # NoneVal}
    IN  IF valued = {} THEN NoneVal
        ELSE Some(SetSum([sp \in valued |-> term[sp][1]], valued))

\* stock_level * amount, NULL when the amount is
Times(sp, amount) == IF amount = NoneVal THEN NoneVal ELSE Some(stock_level(sp) * amount[1])

\* float(x) if x else 0.0, int(x) if x else 0
OrZero(opt) == IF Truthy(opt) THEN opt[1] ELSE 0

\* is_low_stock counting a stock level equal to the reorder point as low
is_low_stockMutOrEqual(stock, reorder_point) == stock <= reorder_point

\* app.py 1102
is_low_stock(stock, reorder_point) == stock < reorder_point

\* app.py 1041-1058 and 1148-1165: summary_query and the InventorySummary
\* made of its row; avg_stock_level is in tenths
InventorySummary(rq) ==
    LET R == {sp \in InventoryRecords : InventoryWhere(rq, sp)}
        threshold == OptionalOr(rq.low_stock_threshold, DefaultThreshold)
        total_items == Cardinality({sp[2] : sp \in R})
        low_stock_count ==
            SqlSum([sp \in R |-> Some(IF stock_level(sp) < threshold THEN 1 ELSE 0)], R)
        total_stock_value == SqlSum([sp \in R |-> Times(sp, products[sp[2]].cost)], R)
        total_retail_value == SqlSum([sp \in R |-> Times(sp, products[sp[2]].base_price)], R)
        stock_sum == SetSum([sp \in R |-> stock_level(sp)], R)
    IN  [total_items |-> total_items,
         low_stock_count |-> OrZero(low_stock_count),
         total_stock_value |-> Round2(OrZero(total_stock_value)),
         total_retail_value |-> Round2(OrZero(total_retail_value)),
         avg_stock_level |-> IF R = {} THEN 0
                             ELSE RoundHalfEven(10 * stock_sum, Cardinality(R))]

\* LEFT JOIN retail.product_image_embeddings pie: a row per image of the
\* product, one row with a NULL image_url when it has none
ImageRows(p) == 1..(IF products[p].images = 0 THEN 1 ELSE products[p].images)

\* app.py 1062-1086: the rows of the item query before ORDER BY and LIMIT
InventoryJoinRows(rq) ==
    UNION {{[store_id |-> sp[1], product_id |-> sp[2], stock_level |-> stock_level(sp),
             image |-> k] : k \in ImageRows(sp[2])} :
           sp \in {r \in InventoryRecords : InventoryWhere(rq, r)}}

\* ORDER BY i.stock_level ASC, st.store_name, p.product_name; rows equal in
\* all three differ in image_url only, which the items built below do not
\* distinguish
InventoryRowBefore(a, b) ==
    \/ a.stock_level < b.stock_level
    \/ a.stock_level = b.stock_level /\ a.store_id < b.store_id
    \/ a.stock_level = b.stock_level /\ a.store_id = b.store_id
       /\ a.product_id < b.product_id
    \/ a.stock_level = b.stock_level /\ a.store_id = b.store_id
       /\ a.product_id = b.product_id /\ a.image <= b.image

RECURSIVE SortInventoryRows(_)
SortInventoryRows(S) ==
    IF S = {} THEN <<>>
    ELSE LET m == CHOOSE x \in S : \A y \in S : InventoryRowBefore(x, y)
         IN  <<m>> \o SortInventoryRows(S \ {m})

\* app.py 1097-1146: the InventoryItem of a row
InventoryItem(row, rq) ==
    LET reorder_point == OptionalOr(rq.low_stock_threshold, DefaultThreshold)
        cost == products[row.product_id].cost
        base_price == products[row.product_id].base_price
    IN  [store_id |-> row.store_id,
         product_id |-> row.product_id,
         category |-> products[row.product_id].category_name,
         stock_level |-> row.stock_level,
         reorder_point |-> reorder_point,
         is_low_stock |-> is_low_stock(row.stock_level, reorder_point),
         stock_value |-> Round2(IF Truthy(cost) THEN cost[1] * row.stock_level ELSE 0),
         retail_value |->
             Round2(IF Truthy(base_price) THEN base_price[1] * row.stock_level ELSE 0)]

\* app.py 1086-1106: the rows up to LIMIT, then the low_stock_only filter
inventory_items(rq) ==
    LET rows == Take(SortInventoryRows(InventoryJoinRows(rq)),
                     OptionalOr(rq.limit, DefaultLimit))
        items == [i \in 1..Len(rows) |-> InventoryItem(rows[i], rq)]
    IN  SelectSeq(items, LAMBDA item : ~(rq.low_stock_only /\ ~item.is_low_stock))

\* app.py 1011-1175: the connection is taken before the try, so what
\* get_connection raises leaves the handler
get_inventory ==
    \E rq \in InventoryRequests, acquire_ok, query_ok \in BOOLEAN :
        Serve("get_inventory", rq,
              TryBody(acquire_ok, query_ok, FALSE),
              First(GetConnectionExc(acquire_ok), CaughtAll(QueryExc(query_ok, FALSE))),
              [inventory |-> inventory_items(rq), summary |-> InventorySummary(rq)])

(***************************************************************************)
(* GET /api/management/products, app.py 1178-1331.                         *)
(***************************************************************************)
ProductRequests ==
    {[NoParams EXCEPT !.category = c, !.supplier_id = s, !.discontinued = d,
                      !.search = q, !.limit = l, !.offset = o] :
        c \in {NoneVal, Some(<<"t", "E", "n", "t">>)}, s \in {NoneVal, Some(1)},
        d \in {NoneVal, Some(FALSE)}, q \in {NoneVal, Some(<<"O", "w">>)},
        l \in {NoneVal} \cup {Some(n) : n \in 1..MaxLimit},
        o \in {NoneVal} \cup {Some(n) : n \in 1..MaxOffset}}

\* LOWER(column) LIKE LOWER('%search%'), NULL (not true) for a NULL column
SearchLike(column, search) ==
    column # NoneVal /\ Contains(LOWER(column[1]), LOWER(search))

\* app.py 1203-1232: where_clause, for product p
ProductsWhere(rq, p) ==
    /\ TextTruthy(rq.category) => LOWER(products[p].category_name) = LOWER(rq.category[1])
    /\ rq.supplier_id # NoneVal => product_supplier[p] = rq.supplier_id
    /\ rq.discontinued # NoneVal => products[p].discontinued = rq.discontinued[1]
    /\ TextTruthy(rq.search) =>
          \/ SearchLike(Some(product_name[p]), rq.search[1])
          \/ SearchLike(Some(sku[p]), rq.search[1])
          \/ SearchLike(product_description[p], rq.search[1])

\* app.py 1235-1242: count_query
total_count(rq) == Cardinality({p \in ProductIds : ProductsWhere(rq, p)})

\* app.py 1245-1271: one group per (product, image_url); the inventory
\* records of the product are summed inside the group
ProductGroups(rq) ==
    UNION {{[product_id |-> p, image |-> k] : k \in ImageRows(p)} :
           p \in {r \in ProductIds : ProductsWhere(rq, r)}}

\* ORDER BY p.product_name; the groups of one product differ in image_url only
ProductGroupBefore(a, b) ==
    \/ a.product_id < b.product_id
    \/ a.product_id = b.product_id /\ a.image <= b.image

RECURSIVE SortProductGroups(_)
SortProductGroups(S) ==
    IF S = {} THEN <<>>
    ELSE LET m == CHOOSE x \in S : \A y \in S : ProductGroupBefore(x, y)
         IN  <<m>> \o SortProductGroups(S \ {m})

\* app.py 1281-1310: the ManagementProduct of a row
ManagementProduct(row) ==
    LET records == {sp \in InventoryRecords : sp[2] = row.product_id}
        total_stock == SetSum([sp \in records |-> inventory[sp][1]], records)
        cost == OrZero(products[row.product_id].cost)
        base_price == OrZero(products[row.product_id].base_price)
    IN  [product_id |-> row.product_id,
         category |-> products[row.product_id].category_name,
         discontinued |-> products[row.product_id].discontinued,
         total_stock |-> total_stock,
         store_count |-> Cardinality(records),
         stock_value |-> Round2(cost * total_stock),
         retail_value |-> Round2(base_price * total_stock)]

\* app.py 1273-1277: LIMIT $n OFFSET $n+1
ProductPage(rq) ==
    LET rows == Take(Drop(SortProductGroups(ProductGroups(rq)), OptionalOr(rq.offset, 0)),
                     OptionalOr(rq.limit, DefaultLimit))
    IN  [i \in 1..Len(rows) |-> ManagementProduct(rows[i])]

\* app.py 1316-1321
ProductPagination(rq, page) ==
    [total |-> total_count(rq),
     limit |-> OptionalOr(rq.limit, DefaultLimit),
     offset |-> OptionalOr(rq.offset, 0),
     has_more |-> (OptionalOr(rq.offset, 0) + Len(page)) < total_count(rq)]

\* app.py 1198-1331: as get_inventory, the connection is taken before the try
get_products ==
    \E rq \in ProductRequests, acquire_ok, query_ok \in BOOLEAN :
        Serve("get_products", rq,
              TryBody(acquire_ok, query_ok, FALSE),
              First(GetConnectionExc(acquire_ok), CaughtAll(QueryExc(query_ok, FALSE))),
              [products |-> ProductPage(rq),
               pagination |-> ProductPagination(rq, ProductPage(rq))])

NextREST ==
    \/ health_check
    \/ get_stores
    \/ get_categories
    \/ get_featured_products
    \/ get_products_by_category
    \/ get_product_by_id
    \/ get_product_by_sku
    \/ get_top_categories
    \/ get_suppliers
    \/ get_inventory
    \/ get_products

(***************************************************************************)
(* Two query methods of the PostgreSQL providers with the rows they        *)
(* select.  The steps between get_connection and release_connection are    *)
(* the actions above; here a call runs from its arguments to its envelope  *)
(* in one step, and the columns the callers do not read are left out.      *)
(***************************************************************************)
\* low_stock_threshold: int = 50
FinanceDefaultThreshold == 50
\* limit: int = 20
SuppliersDefaultLimit == 20

store_name == << <<"N", "o", "r", "t", "h">>, <<"W", "e", "s", "t">> >>
supplier_rating == <<3, 4>>

\* a provider method returns its envelope and raises nothing
Return(name, rq, arose, envelope) ==
    /\ endpoint = "none"
    /\ endpoint' = name
    /\ request' = rq
    /\ raised_exc' = arose
    /\ status_code' = 0
    /\ body' = envelope
    /\ UNCHANGED <<async_session_factory, products, inventory, suppliers>>
    /\ UNCHANGED <<wsVars, dbVars, wfVars>>

\* finance_postgres.py 91-102 and 381-383: get_connection and set_config
ProviderConnectionExc(acquire_ok) ==
    IF connection_pool = 0 \/ ~acquire_ok THEN "RuntimeError" ELSE "none"

InventoryStatusRequests ==
    {[NoParams EXCEPT !.store_id = s, !.category = c, !.low_stock_threshold = t] :
        s \in {NoneVal, Some(1)},
        c \in {NoneVal, Some(<<>>), Some(<<"t", "E", "n", "t">>)},
        t \in {NoneVal, Some(10)}}

\* finance_postgres.py 402-421: FROM, JOIN and WHERE
InventoryStatusWhere(rq, sp) ==
    /\ inventory[sp] # NoneVal
    /\ products[sp[2]].discontinued = FALSE
    /\ rq.store_id # NoneVal => sp[1] = rq.store_id[1]
    /\ TextTruthy(rq.category) =>
          UPPER(products[sp[2]].category_name) = UPPER(rq.category[1])

\* finance_postgres.py 398-401: CASE WHEN i.stock_level <= $1 THEN true ELSE false END
low_stock_alert(stock, threshold) ==
    stock <= threshold

InventoryStatusColumns ==
    <<"store_name", "sku", "category_name", "stock_level", "low_stock_alert">>

\* finance_postgres.py 386-401: the select list, for one inventory record
InventoryStatusRow(rq, sp) ==
    [keys |-> InventoryStatusColumns,
     val  |-> [c \in {InventoryStatusColumns[j] : j \in 1..Len(InventoryStatusColumns)} |->
                 CASE c = "store_name"      -> store_name[sp[1]]
                   [] c = "sku"             -> sku[sp[2]]
                   [] c = "category_name"   -> products[sp[2]].category_name
                   [] c = "stock_level"     -> inventory[sp][1]
                   [] c = "low_stock_alert" ->
                        low_stock_alert(inventory[sp][1],
                                        OptionalOr(rq.low_stock_threshold,
                                                   FinanceDefaultThreshold))]]

\* ORDER BY s.store_name, c.category_name, i.stock_level ASC
InventoryStatusBefore(a, b) ==
    LET ca == CategoryRank(products[a[2]].category_name)
        cb == CategoryRank(products[b[2]].category_name)
    IN  \/ a[1] < b[1]
        \/ a[1] = b[1] /\ ca < cb
        \/ a[1] = b[1] /\ ca = cb /\ inventory[a][1] <= inventory[b][1]

RECURSIVE InventoryStatusOrders(_)
\* the orders PostgreSQL can return the records S in: records equal in all
\* three sort keys come in either order
InventoryStatusOrders(S) ==
    IF S = {} THEN {<<>>}
    ELSE UNION {{<<m>> \o rest : rest \in InventoryStatusOrders(S \ {m})} :
                m \in {x \in S : \A y \in S : InventoryStatusBefore(x, y)}}

\* finance_postgres.py 366-458
get_current_inventory_status ==
    \E rq \in InventoryStatusRequests, acquire_ok, query_ok \in BOOLEAN :
        LET arose == First(ProviderConnectionExc(acquire_ok), QueryExc(query_ok, FALSE))
            selected == {sp \in Stores \X ProductIds : InventoryStatusWhere(rq, sp)}
        IN  \E order \in InventoryStatusOrders(selected) :
                Return("get_current_inventory_status", rq, arose,
                       IF arose # "none" THEN ErrorEnvelope
                       ELSE PgEnvelope([i \in 1..Len(order) |->
                                           InventoryStatusRow(rq, order[i])]))

SupplierRequests ==
    {[NoParams EXCEPT !.name_query = q, !.limit = l] :
        q \in {NoneVal, Some(<<>>), Some(<<"a", "C">>)},
        l \in {NoneVal} \cup {Some(n) : n \in 1..MaxLimit}}

\* supplier_postgres.py 65-70: the numbers of the placeholders written into
\* the query text, and the params list
ListSuppliersPlaceholders(rq) ==
    (IF TextTruthy(rq.name_query) THEN {1} ELSE {}) \cup {2}

ListSuppliersParams(rq) ==
    (IF TextTruthy(rq.name_query) THEN <<rq.name_query>> ELSE <<>>)
        \o <<Some(OptionalOr(rq.limit, SuppliersDefaultLimit))>>

\* conn.fetch(query, *params): the statement takes as many arguments as its
\* highest placeholder, each of which must occur for its type to be known
BindExc(placeholders, params) ==
    IF placeholders = 1..Len(params) THEN "none" ELSE "InterfaceError"

\* supplier_postgres.py 62-67: WHERE active_status = true AND supplier_name ILIKE $1
ListSuppliersWhere(rq, s) ==
    /\ suppliers[s].active_status = TRUE
    /\ TextTruthy(rq.name_query) =>
          Contains(LOWER(supplier_name[s]), LOWER(rq.name_query[1]))

\* ORDER BY preferred_vendor DESC, supplier_rating DESC, supplier_name ASC;
\* the names sort as the ids do
SupplierBefore(a, b) ==
    \/ suppliers[a].preferred_vendor /\ ~suppliers[b].preferred_vendor
    \/ suppliers[a].preferred_vendor = suppliers[b].preferred_vendor
       /\ supplier_rating[a] > supplier_rating[b]
    \/ suppliers[a].preferred_vendor = suppliers[b].preferred_vendor
       /\ supplier_rating[a] = supplier_rating[b] /\ a <= b

RECURSIVE SortSuppliers(_)
SortSuppliers(S) ==
    IF S = {} THEN <<>>
    ELSE LET m == CHOOSE x \in S : \A y \in S : SupplierBefore(x, y)
         IN  <<m>> \o SortSuppliers(S \ {m})

SupplierColumns == <<"supplier_id", "supplier_name", "preferred_vendor">>

SupplierRow(s) ==
    [keys |-> SupplierColumns,
     val  |-> [c \in {SupplierColumns[j] : j \in 1..Len(SupplierColumns)} |->
                 CASE c = "supplier_id"      -> s
                   [] c = "supplier_name"    -> supplier_name[s]
                   [] c = "preferred_vendor" -> suppliers[s].preferred_vendor]]

\* supplier_postgres.py 35-82
list_suppliers ==
    \E rq \in SupplierRequests, acquire_ok, query_ok \in BOOLEAN :
        LET params == ListSuppliersParams(rq)
            arose == First(ProviderConnectionExc(acquire_ok),
                           First(BindExc(ListSuppliersPlaceholders(rq), params),
                                 QueryExc(query_ok, FALSE)))
            selected == SortSuppliers({s \in SupplierIds : ListSuppliersWhere(rq, s)})
            rows == Take(selected, params[Len(params)][1])
        IN  Return("list_suppliers", rq, arose,
                   IF arose # "none" THEN ErrorEnvelope
                   ELSE PgEnvelope([i \in 1..Len(rows) |-> SupplierRow(rows[i])]))

NextQueries ==
    \/ get_current_inventory_status
    \/ list_suppliers

(***************************************************************************)
(* Specifications.  Each looks at one part of the program and holds the    *)
(* variables of the others still.  The REST handlers and the query methods *)
(* change nothing a later request reads, so the response of one request is *)
(* looked at.                                                              *)
(***************************************************************************)
\* the providers and their callers, the WebSocket handler not started
InitProviders == InitWS /\ WorkflowIdle /\ InitDB /\ ApiOff

SpecDB == InitProviders /\ [][NextDB]_vars

\* the WebSocket handler, no provider in use
InitHandler == InitWS /\ WorkflowIdle /\ DBOff /\ ApiOff

SpecWS == InitHandler /\ [][NextWS]_vars

\* the await of each step completes: the client sends or disconnects, the
\* workflow yields, ends or raises, a send returns or raises
FairSpecWS == SpecWS /\ WF_vars(NextWS)

\* a REST request in every state of db_provider and of the session factory
InitRest ==
    /\ InitWS
    /\ WorkflowIdle
    /\ InitDB
    /\ KindsOf(deployment) = {"rest"}
    /\ async_session_factory \in BOOLEAN
    /\ products = SampleProducts
    /\ inventory = SampleInventory
    /\ suppliers = SampleSuppliers
    /\ ApiIdle

SpecRest == InitRest /\ [][NextREST]_vars

\* the product rows get_inventory is run over
InventoryCatalogs ==
    {[SampleProducts EXCEPT ![1].cost = c, ![1].images = k, ![2].category_name = g] :
        c \in Costs, k \in ImageCounts, g \in CategoryNames}

\* get_inventory over every inventory content, the provider holding a pool
InitInventory ==
    /\ InitWS
    /\ WorkflowIdle
    /\ InitDB
    /\ deployment = "rest_api"
    /\ connection_pool # 0
    /\ async_session_factory = TRUE
    /\ products \in InventoryCatalogs
    /\ inventory \in [Stores \X ProductIds -> StockLevels]
    /\ suppliers = SampleSuppliers
    /\ ApiIdle

NextInventory == get_inventory

SpecInventory == InitInventory /\ [][NextInventory]_vars

\* the product rows get_products is run over
ProductCatalogs ==
    {[SampleProducts EXCEPT ![1].images = k1, ![2].images = k2, ![1].discontinued = d1,
                            ![2].discontinued = d2, ![2].category_name = g] :
        k1 \in ImageCounts, k2 \in ImageCounts, d1 \in BOOLEAN, d2 \in BOOLEAN,
        g \in CategoryNames}

\* get_products over every catalogue, the provider holding a pool
InitProducts ==
    /\ InitWS
    /\ WorkflowIdle
    /\ InitDB
    /\ deployment = "rest_api"
    /\ connection_pool # 0
    /\ async_session_factory = TRUE
    /\ products \in ProductCatalogs
    /\ inventory \in {SampleInventory, [sp \in Stores \X ProductIds |-> NoneVal]}
    /\ suppliers = SampleSuppliers
    /\ ApiIdle

NextProducts == get_products

SpecProducts == InitProducts /\ [][NextProducts]_vars

\* the two query methods, on a provider before and after create_pool, over
\* every inventory content or every supplier table
InitQueries ==
    /\ InitWS
    /\ WorkflowIdle
    /\ deployment = "mcp_server"
    /\ connection_pool \in {0, 1}
    /\ poolsCreated = connection_pool
    /\ DBIdle
    /\ async_session_factory = FALSE
    /\ \/ /\ products \in {[SampleProducts EXCEPT ![1].discontinued = d,
                                                  ![2].category_name = g] :
                              d \in BOOLEAN, g \in CategoryNames}
          /\ inventory \in [Stores \X ProductIds -> StockLevels]
          /\ suppliers = SampleSuppliers
       \/ /\ products = SampleProducts
          /\ inventory = SampleInventory
          /\ suppliers \in [SupplierIds -> SupplierRows]
    /\ ApiIdle

SpecQueries == InitQueries /\ [][NextQueries]_vars

(***************************************************************************)
(* Properties of the WebSocket handler.                                    *)
(***************************************************************************)
FrameIdx == 1..Len(frames)
EventFrames == SelectSeq(frames, LAMBDA f : f.ev > 0)
CountType(t) == Cardinality({i \in FrameIdx : frames[i].type = t})

\* the frame types the interface description lists
ListedFrameTypes ==
    {"started", "workflow_started", "step_started", "step_completed", "step_failed",
     "workflow_output", "completed", "error"}

\* the frame type the interface fixes for each named event class
ListedTypeOf ==
    [c \in NamedEventClasses |->
        CASE c = "WorkflowStartedEvent"   -> "workflow_started"
          [] c = "WorkflowOutputEvent"    -> "workflow_output"
          [] c = "ExecutorInvokedEvent"   -> "step_started"
          [] c = "ExecutorCompletedEvent" -> "step_completed"
          [] c = "ExecutorFailedEvent"    -> "step_failed"]

\* C1: when the first client message parses as a JSON object, the first frame
\* sent is `started`; the workflow is not started before that frame is sent,
\* so every frame that reports a workflow event comes after it.
C1_StartedFirst ==
    /\ (request_data.kind = "object" /\ frames # <<>>) => frames[1].type = "started"
    /\ stream # "idle" => (frames # <<>> /\ frames[1].type = "started")
    /\ \A i \in FrameIdx : frames[i].ev > 0 => i > 1

C1_Witness ==
    /\ request_data.kind = "object"
    /\ stream = "running"
    /\ Len(frames) >= 2
    /\ frames[1].type = "started"
    /\ frames[2].ev = 1

\* C2: in a session whose event stream ended without raising and in which no
\* send failed, exactly one `completed` frame is sent, it is the last frame,
\* every event's frame precedes it, and no `error` frame is sent.
C2_CompletedOnceLast ==
    (pc = "done" /\ stream = "ended" /\ sendsFailed = 0) =>
        /\ CountType("completed") = 1
        /\ frames[Len(frames)].type = "completed"
        /\ CountType("error") = 0
        /\ \A k \in 1..Len(events) :
              \E i \in 1..(Len(frames) - 1) : frames[i].ev = k

C2_Witness ==
    /\ pc = "done"
    /\ stream = "ended"
    /\ sendsFailed = 0
    /\ Len(events) = 2
    /\ frames[Len(frames)].type = "completed"

\* C3 as stated: every event the stream yielded has exactly one frame once
\* the session is over.
C3_Original ==
    pc = "done" =>
        \A k \in 1..Len(events) :
            Cardinality({i \in FrameIdx : frames[i].ev = k}) = 1

\* C3 amended: the frames that report events are, in order, the frames of
\* the events yielded, each of the type its class fixes; the only event that
\* can lack a frame is the last one yielded, when its send raised, and the
\* loop consumes no event after it.
C3_OneToOne ==
    /\ \A i \in 1..Len(EventFrames) :
          /\ EventFrames[i].ev = i
          /\ events[i].cls \in NamedEventClasses =>
                EventFrames[i].type = ListedTypeOf[events[i].cls]
    /\ Len(EventFrames) \in {Len(events), Len(events) - 1}
    /\ (Len(EventFrames) < Len(events) /\ pc # "send_event") =>
          /\ sendsFailed > 0
          /\ stream = "running"
          /\ pc \in {"send_workflow_error", "send_ws_error", "close", "done"}
    /\ (pc = "done" /\ sendsFailed = 0) => Len(EventFrames) = Len(events)

C3_Witness ==
    /\ pc = "done"
    /\ Len(events) = 3
    /\ Len(EventFrames) = 3
    /\ events[1].cls = "ExecutorInvokedEvent"
    /\ events[2].cls = "ExecutorCompletedEvent"

\* C4 as stated: every frame sent has one of the listed types.
C4_Original ==
    \A i \in FrameIdx : frames[i].type \in ListedFrameTypes

\* C4 amended: every frame sent has one of the listed types or the type
\* `event`, and `event` is the type of exactly the frames that report an
\* event of a class other than the five named ones.
C4_FrameTypes ==
    \A i \in FrameIdx :
        /\ frames[i].type \in ListedFrameTypes \cup {"event"}
        /\ frames[i].type = "event" <=>
              (frames[i].ev > 0 /\ events[frames[i].ev].cls \notin NamedEventClasses)

C4_Witness ==
    \E i \in FrameIdx : frames[i].type = "event" /\ events[frames[i].ev].cls = "OtherEvent"

\* C5 as stated: a session whose stream raised sends exactly one `error`
\* frame, as its last frame, sends no `completed` frame, closes the socket
\* and lets no exception escape.
C5_Original ==
    (pc = "done" /\ stream = "raised") =>
        /\ CountType("error") = 1
        /\ frames[Len(frames)].type = "error"
        /\ CountType("completed") = 0
        /\ closeCalls = 1
        /\ ~escaped

\* C5 amended: a session whose stream raised sends no `completed` frame,
\* closes the socket and lets no exception escape; it sends exactly one
\* `error` frame, as its last frame, when the send of that frame succeeds,
\* and no `error` frame when that send fails.
C5_StreamRaises ==
    (pc = "done" /\ stream = "raised") =>
        /\ CountType("completed") = 0
        /\ closeCalls = 1
        /\ ~escaped
        /\ sendsFailed = 0 => (CountType("error") = 1 /\ frames[Len(frames)].type = "error")
        /\ sendsFailed > 0 => CountType("error") = 0

C5_Witness ==
    /\ pc = "done"
    /\ stream = "raised"
    /\ Len(events) = 2
    /\ sendsFailed = 0
    /\ frames[Len(frames)].type = "error"

\* C6: once the connection is accepted the handler eventually calls close,
\* on every path; close is called once, it is the handler's last call on the
\* socket, and no frame is sent after it.
C6_AlwaysCloses ==
    /\ [](pc = "done" /\ ~escaped =>
            closeCalls = 1 /\ lastOp = "close" /\ sock = "closed")
    /\ [][closeCalls > 0 => frames' = frames /\ lastOp' = lastOp]_vars
    /\ (pc = "receive") ~> (pc = "done" /\ closeCalls = 1)

C6_Witness ==
    /\ pc = "done"
    /\ closeCalls = 1
    /\ sendsFailed > 0
    /\ Len(frames) >= 2

(***************************************************************************)
(* Properties of the providers.                                            *)
(***************************************************************************)
Returned(t) == kind[t] \in QueryKinds /\ result[t] # <<>>

\* C7: every envelope a provider query method returns has n equal to the
\* number of rows in r and every row as long as c; when the query yielded
\* no rows c and r are empty and n is 0; an envelope carrying err has
\* c = [], r = [] and n = 0.
C7_EnvelopeShape ==
    \A t \in Tasks :
        Returned(t) =>
            LET env == result[t][1] IN
            /\ env.n = Len(env.r)
            /\ \A i \in 1..Len(env.r) : Len(env.r[i]) = Len(env.c)
            /\ env.err => (env.c = <<>> /\ env.r = <<>> /\ env.n = 0)
            /\ fetched[t] = Some(NoRows) => (env.c = <<>> /\ env.r = <<>> /\ env.n = 0)
            /\ (fetched[t] # <<>> /\ ~env.err) =>
                  /\ env.n = Len(fetched[t][1])
                  /\ \A i \in 1..env.n : \A j \in 1..Len(env.c) :
                        env.r[i][j] = fetched[t][1][i].val[env.c[j]]

C7_Witness ==
    \E t \in Tasks :
        /\ Returned(t)
        /\ tpc[t] = "done"
        /\ ~result[t][1].err
        /\ result[t][1].n = 1
        /\ Len(result[t][1].c) = 2

\* C8: an exception raised while a provider query method runs (obtaining
\* the connection, also without a pool; setting the RLS variable; executing
\* the query) becomes the error envelope the method returns, and no
\* exception leaves a provider query method or an MCP tool function.
C8_NoExceptionEscapes ==
    \A t \in Tasks :
        kind[t] \in QueryKinds =>
            /\ ~raised[t]
            /\ (tpc[t] = "done" /\ failedAt[t] # "none") => result[t] = Some(ErrorEnvelope)

\* C9: a connection acquired while serving a query method or a REST request
\* is released exactly once before the call returns, on every path; so no
\* connection is held when no call is in flight, and never more connections
\* are held than calls are in flight.
C9_ReleasedBeforeReturn ==
    /\ \A t \in Tasks :
          tpc[t] = "done" => (~checkedOut[t] /\ (conn[t] # 0 => releases[t] = 1))
    /\ \A t \in Tasks : releases[t] <= 1
    /\ Cardinality({t \in Tasks : checkedOut[t]}) <= Cardinality({t \in Tasks : InFlight(t)})

\* C10: under every interleaving of create_pool calls at most one pool is
\* ever created for a provider, and no created pool is left unreferenced.
C10_SinglePool ==
    /\ poolsCreated <= 1
    /\ \A p \in 1..poolsCreated : connection_pool = p

(***************************************************************************)
(* Properties of the REST handlers.                                        *)
(***************************************************************************)
RestEndpoints ==
    {"health_check", "get_stores", "get_categories", "get_featured_products",
     "get_products_by_category", "get_product_by_id", "get_product_by_sku",
     "get_top_categories", "get_suppliers", "get_inventory", "get_products"}

\* the endpoints that look a product up and can find none
LookupEndpoints == {"get_products_by_category", "get_product_by_id", "get_product_by_sku"}

\* the endpoints that test db_provider and its pool before their try
PoolCheckedEndpoints == LookupEndpoints \cup {"get_featured_products"}

C12_HealthAlways200 ==
    endpoint = "health_check" =>
        /\ status_code = 200
        /\ body.status = "healthy"
        /\ body.database =
              IF deployment = "rest_api" /\ connection_pool # 0
              THEN "connected" ELSE "disconnected"

(***************************************************************************)
(* Properties of GET /api/management/inventory.                            *)
(***************************************************************************)
\* the request was answered with an InventoryResponse
InventoryAnswered == endpoint = "get_inventory" /\ status_code = 200

RequestThreshold == OptionalOr(request.low_stock_threshold, DefaultThreshold)
RequestLimit == OptionalOr(request.limit, DefaultLimit)

\* the inventory record the i-th returned item shows
ItemRecord(i) == <<body.inventory[i].store_id, body.inventory[i].product_id>>
ReturnedRecords == {ItemRecord(i) : i \in 1..Len(body.inventory)}

\* C13: limit affects the item list only: at most limit items are returned,
\* the summary is the one every other limit gives, and summary.total_items
\* is never smaller than the number of items returned.
C13_LimitOnlyItems ==
    InventoryAnswered =>
        /\ Len(body.inventory) <= RequestLimit
        /\ \A rq \in InventoryRequests :
              [rq EXCEPT !.limit = request.limit] = request =>
                  InventorySummary(rq) = body.summary
        /\ body.summary.total_items >= Len(body.inventory)

\* two characters equal up to their case
SameLetter(a, b) ==
    a = b \/ \E k \in LetterIdx : {a, b} = {UpperCase[k], LowerCase[k]}

EqualIgnoringCase(s, t) ==
    Len(s) = Len(t) /\ \A i \in 1..Len(s) : SameLetter(s[i], t[i])

\* the record of store sp[1] and product sp[2] satisfies the filters the
\* request supplies
SatisfiesFilters(sp, category_supplied) ==
    /\ request.store_id # NoneVal => sp[1] = request.store_id[1]
    /\ request.product_id # NoneVal => sp[2] = request.product_id[1]
    /\ category_supplied =>
          EqualIgnoringCase(products[sp[2]].category_name, request.category[1])

\* items, exclusions and summary follow the supplied filters
FiltersRespected(category_supplied) ==
    LET matching == {sp \in InventoryRecords : SatisfiesFilters(sp, category_supplied)}
    IN  /\ ReturnedRecords \subseteq matching
        /\ \A sp \in matching \ ReturnedRecords :
              (request.low_stock_only => stock_level(sp) < RequestThreshold)
                  => Len(body.inventory) = RequestLimit
        /\ body.summary.total_items = Cardinality({sp[2] : sp \in matching})
        /\ body.summary.low_stock_count =
              Cardinality({sp \in matching : stock_level(sp) < RequestThreshold})

\* C14 as stated: for every combination of store_id, product_id and category,
\* supplied or omitted, every returned item satisfies the supplied filters
\* (category case-insensitively), no record satisfying them is left out other
\* than by the limit, and the summary covers exactly the records satisfying
\* them.
C14_Original ==
    InventoryAnswered => FiltersRespected(request.category # NoneVal)

\* C14: the same, an empty category counting as a category left out.
C14_FiltersRespected ==
    InventoryAnswered =>
        FiltersRespected(request.category # NoneVal /\ request.category[1] # <<>>)

\* store and category are supplied in a case other than the stored one, an
\* item is returned and a record of the inventory is filtered out
C14_Witness ==
    /\ InventoryAnswered
    /\ request.store_id # NoneVal
    /\ request.category = Some(<<"t", "E", "n", "t">>)
    /\ body.inventory # <<>>
    /\ InventoryRecords \ ReturnedRecords # {}
    /\ Len(body.inventory) < RequestLimit

\* C15: every returned item has reorder_point equal to the request's
\* low_stock_threshold (10 when left out) and is_low_stock true exactly when
\* its stock_level is below that threshold; with low_stock_only every
\* returned item is low in stock.
C15_LowStockFlag ==
    InventoryAnswered =>
        \A i \in 1..Len(body.inventory) :
            /\ body.inventory[i].reorder_point = RequestThreshold
            /\ body.inventory[i].is_low_stock <=>
                  body.inventory[i].stock_level < RequestThreshold
            /\ request.low_stock_only => body.inventory[i].is_low_stock

\* low_stock_only with the default threshold: a record at the threshold is
\* left out and a record below it is returned
C15_Witness ==
    /\ InventoryAnswered
    /\ request.low_stock_only
    /\ request.low_stock_threshold = NoneVal
    /\ body.inventory # <<>>
    /\ \E sp \in InventoryRecords \ ReturnedRecords :
          /\ SatisfiesFilters(sp, TextTruthy(request.category))
          /\ stock_level(sp) = DefaultThreshold

\* C16: summary.low_stock_count is at most summary.total_items, whatever the
\* inventory holds and whatever the threshold is.
C16_LowStockCountBound ==
    InventoryAnswered => body.summary.low_stock_count <= body.summary.total_items

\* abs(a - b) < 0.1 of the amounts in thousandths
SumTolerance == 100
Within(a, b) == a - b < SumTolerance /\ b - a < SumTolerance

\* C17: when the number of returned items equals summary.total_items, the
\* summary's total_stock_value and total_retail_value are the sums of the
\* items' stock_value and retail_value, up to rounding.
C17_TotalsAreItemSums ==
    (InventoryAnswered /\ Len(body.inventory) = body.summary.total_items) =>
        /\ Within(body.summary.total_stock_value,
                  SeqSum([i \in 1..Len(body.inventory) |-> body.inventory[i].stock_value]))
        /\ Within(body.summary.total_retail_value,
                  SeqSum([i \in 1..Len(body.inventory) |-> body.inventory[i].retail_value]))

(***************************************************************************)
(* Properties of GET /api/management/products.                             *)
(***************************************************************************)
\* the request was answered with a ManagementProductResponse
ProductsAnswered == endpoint = "get_products" /\ status_code = 200

\* product p satisfies the filters of the request
MatchesProductFilters(p) ==
    /\ TextTruthy(request.category) =>
          EqualIgnoringCase(products[p].category_name, request.category[1])
    /\ request.supplier_id # NoneVal => product_supplier[p] = request.supplier_id
    /\ request.discontinued # NoneVal => products[p].discontinued = request.discontinued[1]
    /\ TextTruthy(request.search) =>
          \E text \in {Some(product_name[p]), Some(sku[p]), product_description[p]} :
              /\ text # NoneVal
              /\ \E i \in 0..(Len(text[1]) - Len(request.search[1])) :
                    EqualIgnoringCase(SubSeq(text[1], i + 1, i + Len(request.search[1])),
                                      request.search[1])

MatchingProducts == {p \in ProductIds : MatchesProductFilters(p)}

\* the matching products that come after the returned page in the order of
\* product_name (the names sort as the ids do); after an empty page, those
\* that come after the first offset ones
BeyondPage ==
    LET page == body.products
        offset == OptionalOr(request.offset, 0)
    IN  IF page = <<>>
        THEN {p \in MatchingProducts :
                 Cardinality({q \in MatchingProducts : q <= p}) > offset}
        ELSE {p \in MatchingProducts : p > page[Len(page)].product_id}

\* C18: pagination.total is the number of products matching the filters,
\* whatever limit and offset are, and pagination.has_more is true exactly
\* when a matching product lies beyond the returned page.
C18_HasMore ==
    ProductsAnswered =>
        /\ body.pagination.total = Cardinality(MatchingProducts)
        /\ body.pagination.has_more <=> BeyondPage # {}

\* C18 for the catalogs in which no product owns more than one image row
C18_HasMoreSingleImage ==
    (\A p \in ProductIds : products[p].images <= 1) => C18_HasMore

\* a page that is not the last one and a last page, of single-image products
C18_SingleImageReached ==
    /\ ProductsAnswered
    /\ \A p \in ProductIds : products[p].images <= 1
    /\ body.products # <<>>
    /\ body.pagination.has_more

(***************************************************************************)
(* Properties of the provider query methods.                               *)
(***************************************************************************)
\* the position of a column in the rows of the envelope
ColumnOf(name) == CHOOSE j \in 1..Len(body.c) : body.c[j] = name

\* C19: get_current_inventory_status sets low_stock_alert to true exactly
\* for the rows whose stock_level is below low_stock_threshold and to false
\* for every other row, a row whose stock_level equals the threshold
\* included.
C19_AlertBelowThreshold ==
    (endpoint = "get_current_inventory_status" /\ ~body.err) =>
        \A i \in 1..Len(body.r) :
            body.r[i][ColumnOf("low_stock_alert")] <=>
                body.r[i][ColumnOf("stock_level")]
                    < OptionalOr(request.low_stock_threshold, FinanceDefaultThreshold)

\* the database answers: a connection is acquired and PostgreSQL raises
\* nothing while it executes a well-formed statement
DatabaseAnswers == raised_exc \notin {"RuntimeError", "PostgresError"}

\* the suppliers list_suppliers is to choose from
WantedSuppliers ==
    {s \in SupplierIds :
        /\ suppliers[s].active_status
        /\ TextTruthy(request.name_query) =>
              \E i \in 0..(Len(supplier_name[s]) - Len(request.name_query[1])) :
                  EqualIgnoringCase(
                      SubSeq(supplier_name[s], i + 1, i + Len(request.name_query[1])),
                      request.name_query[1])}

ListedSuppliers == {body.r[i][ColumnOf("supplier_id")] : i \in 1..Len(body.r)}

\* C20: list_suppliers without a name_query returns a non-error envelope
\* with the active suppliers, at most limit of them; with a name_query it
\* returns only active suppliers whose name contains the query
\* case-insensitively, at most limit of them.
C20_ListOrSearch ==
    (endpoint = "list_suppliers" /\ DatabaseAnswers) =>
        LET limit == OptionalOr(request.limit, SuppliersDefaultLimit)
        IN  /\ ~body.err
            /\ body.n = Len(body.r)
            /\ body.n <= limit
            /\ ListedSuppliers \subseteq WantedSuppliers
            /\ body.n = IF Cardinality(WantedSuppliers) < limit
                        THEN Cardinality(WantedSuppliers) ELSE limit

\* C20 for the calls that name a supplier
C20_SearchByName ==
    TextTruthy(request.name_query) => C20_ListOrSearch

\* a search by name that found a supplier
C20_SearchReached ==
    /\ endpoint = "list_suppliers"
    /\ TextTruthy(request.name_query)
    /\ body.n > 0

(***************************************************************************)
(* Further properties of the WebSocket handler.                            *)
(***************************************************************************)
\* the message of the payload, or the default analysis message
PayloadMessage == IF request_data.has_msg THEN request_data.message ELSE DefaultMessage

\* C22: the text handed to the workflow is the payload's message (the
\* default analysis message when it has none), followed by a blank line and
\* 'Store ID: <store_id>' when the payload provides a store_id, 0 included,
\* and by nothing when it provides none.
C22_FullMessage ==
    pc \in {"stream", "send_event", "send_completed"} =>
        full_message =
            IF request_data.store_id # NoneVal
            THEN PayloadMessage \o "\n\nStore ID: " \o ToString(request_data.store_id[1])
            ELSE PayloadMessage

\* C22 for the payloads whose store_id is not 0
C22_NonZeroStore ==
    request_data.store_id # Some(0) => C22_FullMessage

\* a payload with a non-zero store_id and no message reached the workflow
C22_NonZeroReached ==
    /\ pc = "stream"
    /\ request_data.store_id = Some(7)
    /\ ~request_data.has_msg

\* the workflow_output frames sent before the i-th frame
OutputFramesBefore(i) == {j \in 1..(i - 1) : frames[j].type = "workflow_output"}

BadFirstMessage == request_data.kind \in {"nonobject", "invalid"}

\* C30 as stated: after a first message that is not valid JSON or not a JSON
\* object the workflow is never started, no started frame is sent, exactly
\* one error frame is sent and the socket is closed.
C30_Original ==
    BadFirstMessage =>
        /\ stream = "idle" /\ events = <<>> /\ full_message = ""
        /\ CountType("started") = 0
        /\ pc = "done" => (CountType("error") = 1 /\ sock = "closed")

\* C30: the same, the error frame being sent once when its send succeeds and
\* not at all when that send fails.
C30_BadFirstMessage ==
    BadFirstMessage =>
        /\ stream = "idle" /\ events = <<>> /\ full_message = ""
        /\ CountType("started") = 0
        /\ pc = "done" =>
              /\ sock = "closed"
              /\ frames = IF sendsFailed = 0 THEN <<Frame("error", 0, "None", TRUE)>>
                          ELSE <<>>
              /\ sendsFailed <= 1

\* a text that is not JSON was answered with one error frame and the close
C30_Witness ==
    /\ request_data.kind = "invalid"
    /\ pc = "done"
    /\ frames = <<Frame("error", 0, "None", TRUE)>>
    /\ sock = "closed"

(***************************************************************************)
(* The low-stock filter of GET /api/management/inventory and the LIMIT.    *)
(***************************************************************************)
\* the records that satisfy the filters of the request
MatchingRecords ==
    {sp \in InventoryRecords : SatisfiesFilters(sp, TextTruthy(request.category))}

\* ORDER BY i.stock_level ASC, st.store_name, p.product_name on records
RecordBefore(a, b) ==
    \/ stock_level(a) < stock_level(b)
    \/ stock_level(a) = stock_level(b) /\ a[1] < b[1]
    \/ stock_level(a) = stock_level(b) /\ a[1] = b[1] /\ a[2] <= b[2]

\* the limit lowest-stock matching records
LowestRecords ==
    {sp \in MatchingRecords :
        Cardinality({o \in MatchingRecords : RecordBefore(o, sp)}) <= RequestLimit}

LowRecords == {sp \in MatchingRecords : stock_level(sp) < RequestThreshold}

\* the low-stock filter applied to the rows of the query before the LIMIT
FilteredBeforeLimit ==
    LET rows == SortInventoryRows(InventoryJoinRows(request))
        items == [i \in 1..Len(rows) |-> InventoryItem(rows[i], request)]
    IN  Take(SelectSeq(items, LAMBDA item : item.is_low_stock), RequestLimit)

\* filtering after the LIMIT returns what filtering before it returns
C25_SameAsFilterFirst ==
    (InventoryAnswered /\ request.low_stock_only) =>
        body.inventory = FilteredBeforeLimit

\* no low-stock record is left out while a record with more stock is returned,
\* and a response shorter than limit holds every matching low-stock record
C25_NothingLowOmitted ==
    (InventoryAnswered /\ request.low_stock_only) =>
        /\ \A sp \in LowRecords \ ReturnedRecords :
              \A r \in ReturnedRecords : stock_level(r) <= stock_level(sp)
        /\ Len(body.inventory) < RequestLimit => LowRecords \subseteq ReturnedRecords

\* C25: with low_stock_only, filtering the rows after the LIMIT gives what
\* filtering them before the LIMIT gives: the items returned are exactly the
\* low-stock records among the limit lowest-stock matching records, each
\* once, no low-stock record is left out while a record with more stock is
\* returned, and a response shorter than limit holds every matching
\* low-stock record.
C25_FilterAfterLimit ==
    (InventoryAnswered /\ request.low_stock_only) =>
        /\ body.inventory = FilteredBeforeLimit
        /\ ReturnedRecords = LowRecords \cap LowestRecords
        /\ Len(body.inventory) = Cardinality(ReturnedRecords)
        /\ \A sp \in LowRecords \ ReturnedRecords :
              \A r \in ReturnedRecords : stock_level(r) <= stock_level(sp)
        /\ Len(body.inventory) < RequestLimit => LowRecords \subseteq ReturnedRecords

\* C25 for the catalogs in which no product owns more than one image row
C25_SingleImage ==
    (\A p \in ProductIds : products[p].images <= 1) => C25_FilterAfterLimit

\* the limit cut a low-stock record off and a record at the threshold was
\* filtered out of another response
C25_SingleImageReached ==
    /\ InventoryAnswered /\ request.low_stock_only
    /\ \A p \in ProductIds : products[p].images <= 1
    /\ body.inventory # <<>>
    /\ LowRecords \ ReturnedRecords # {}

(***************************************************************************)
(* Paging through GET /api/management/products.                            *)
(***************************************************************************)
\* the page the request's filters and limit give at the k-th offset
PageAt(k) ==
    ProductPage([request EXCEPT
                    !.offset = Some(k * OptionalOr(request.limit, DefaultLimit))])

\* no page after this one holds a row: the query has at most one row per
\* product and image
LastPageIndex == Cardinality(ProductIds) * (MaxImages + 1)

RECURSIVE PagesFrom(_)
\* the rows of the k-th page and of the pages after it
PagesFrom(k) == IF k > LastPageIndex THEN <<>> ELSE PageAt(k) \o PagesFrom(k + 1)

\* C29: the pages at offsets 0, limit, 2*limit, ... of one filter set hold
\* each matching product exactly once, also when a product owns several
\* image rows, and together as many rows as pagination.total says.
C29_EachProductOnce ==
    (ProductsAnswered /\ OptionalOr(request.limit, DefaultLimit) > 0) =>
        LET rows == PagesFrom(0)
        IN  /\ \A p \in MatchingProducts :
                  Cardinality({i \in 1..Len(rows) : rows[i].product_id = p}) = 1
            /\ \A i \in 1..Len(rows) : rows[i].product_id \in MatchingProducts
            /\ Len(rows) = body.pagination.total

\* C29 for the catalogs in which no product owns more than one image row
C29_SingleImage ==
    (\A p \in ProductIds : products[p].images <= 1) => C29_EachProductOnce

\* two single-image products were paged one by one
C29_SingleImageReached ==
    /\ ProductsAnswered
    /\ \A p \in ProductIds : products[p].images <= 1
    /\ request.limit = Some(1)
    /\ body.pagination.total = 2

(***************************************************************************)
(* The dynamically built queries.  A query under construction is the       *)
(* placeholders of its text in textual order, each with the filter that    *)
(* wrote it, the list of bound parameters and the next placeholder number. *)
(* A bound value keeps its Python type: it is the type's name, the number  *)
(* of an int or bool and the characters of a str.                          *)
(***************************************************************************)
IntV(n) == <<"int", n, <<>>>>
TextV(s) == <<"str", 0, s>>
BoolV(b) == <<"bool", IF b THEN 1 ELSE 0, <<>>>>

Placeholder(n, by) == [n |-> n, by |-> by]

\* AddFilter that leaves param_index as it is
AddFilterMutNoIncrement(q, supplied, by, value) ==
    IF supplied
    THEN [text |-> Append(q.text, Placeholder(q.param_index, by)),
          params |-> Append(q.params, value),
          param_index |-> q.param_index]
    ELSE q

\* supplier_postgres.py 217-220 and the like: query += f"... ${param_index}";
\* params.append(value); param_index += 1, under "if <supplied>:"
AddFilter(q, supplied, by, value) ==
    IF supplied
    THEN [text |-> Append(q.text, Placeholder(q.param_index, by)),
          params |-> Append(q.params, value),
          param_index |-> q.param_index + 1]
    ELSE q

\* a query text that starts with the placeholders $1..$Len(params) written
\* in the base query
BaseQuery(bys, params) ==
    [text |-> [i \in 1..Len(bys) |-> Placeholder(i, bys[i])],
     params |-> params,
     param_index |-> Len(params) + 1]

\* what conn.fetch(query, *params) is called with
Fetched(q) == [text |-> q.text, params |-> q.params]

\* the value of an Optional that is tested before it is read
ValueOf(opt) == IF opt = NoneVal THEN 0 ELSE opt[1]
TextOf(opt) == IF opt = NoneVal THEN <<>> ELSE opt[1]

\* supplier_postgres.py 179-251
find_suppliers_for_request_query(rq) ==
    LET q0 == BaseQuery(<<"min_rating", "max_lead_time">>,
                        <<IntV(rq.min_rating), IntV(rq.max_lead_time)>>)
        q1 == AddFilter(q0, rq.esg_required, "esg_required", BoolV(TRUE))
        q2 == AddFilter(q1, TextTruthy(rq.product_category), "product_category",
                        TextV(TextOf(rq.product_category)))
        q3 == AddFilter(q2, rq.budget_min # NoneVal, "budget_min",
                        IntV(ValueOf(rq.budget_min)))
        q4 == AddFilter(q3, rq.budget_max # NoneVal, "budget_max",
                        IntV(ValueOf(rq.budget_max)))
    IN  [text |-> Append(q4.text, Placeholder(q4.param_index, "limit")),
         params |-> Append(q4.params, IntV(rq.limit))]

\* supplier_postgres.py 466-503
get_company_supplier_policy_query(rq) ==
    LET q0 == BaseQuery(<<>>, <<>>)
        q1 == AddFilter(q0, TextTruthy(rq.policy_type), "policy_type",
                        TextV(TextOf(rq.policy_type)))
        q2 == AddFilter(q1, TextTruthy(rq.department), "department",
                        TextV(TextOf(rq.department)))
    IN  Fetched(q2)

\* finance_postgres.py 126-157
get_company_order_policy_query(rq) ==
    Fetched(AddFilter(BaseQuery(<<>>, <<>>), TextTruthy(rq.department), "department",
                      TextV(TextOf(rq.department))))

\* finance_postgres.py 296-331; days_back is written into the text
get_historical_sales_data_query(rq) ==
    LET q0 == BaseQuery(<<>>, <<>>)
        q1 == AddFilter(q0, rq.store_id # NoneVal, "store_id", IntV(ValueOf(rq.store_id)))
        q2 == AddFilter(q1, TextTruthy(rq.category_name), "category_name",
                        TextV(TextOf(rq.category_name)))
    IN  Fetched(q2)

\* finance_postgres.py 385-425
get_current_inventory_status_query(rq) ==
    LET q0 == BaseQuery(<<"low_stock_threshold">>, <<IntV(rq.low_stock_threshold)>>)
        q1 == AddFilter(q0, rq.store_id # NoneVal, "store_id", IntV(ValueOf(rq.store_id)))
        q2 == AddFilter(q1, TextTruthy(rq.category_name), "category_name",
                        TextV(TextOf(rq.category_name)))
    IN  Fetched(q2)

\* app.py 1016-1093: where_clause and filter_params are shared by the
\* summary query, whose threshold placeholder stands before the WHERE, and
\* the item query, whose LIMIT stands after it
get_inventory_queries(rq) ==
    LET q0 == BaseQuery(<<>>, <<>>)
        q1 == AddFilter(q0, rq.store_id # NoneVal, "store_id", IntV(ValueOf(rq.store_id)))
        q2 == AddFilter(q1, rq.product_id # NoneVal, "product_id",
                        IntV(ValueOf(rq.product_id)))
        q3 == AddFilter(q2, TextTruthy(rq.category), "category",
                        TextV(TextOf(rq.category)))
        threshold_param_idx == q3.param_index
        limit_param_idx == q3.param_index
    IN  << [text |-> <<Placeholder(threshold_param_idx, "low_stock_threshold")>> \o q3.text,
            params |-> q3.params \o <<IntV(rq.low_stock_threshold)>>],
           [text |-> Append(q3.text, Placeholder(limit_param_idx, "limit")),
            params |-> q3.params \o <<IntV(rq.limit)>>] >>

Wildcard(s) == <<"%">> \o s \o <<"%">>

\* app.py 1222-1229: one placeholder, written three times
SearchFilter(q, supplied, value) ==
    IF supplied
    THEN [text |-> q.text \o [i \in 1..3 |-> Placeholder(q.param_index, "search")],
          params |-> Append(q.params, value),
          param_index |-> q.param_index + 1]
    ELSE q

\* app.py 1203-1277: count_query runs with params before they are extended
get_products_queries(rq) ==
    LET q0 == BaseQuery(<<>>, <<>>)
        q1 == AddFilter(q0, TextTruthy(rq.category), "category",
                        TextV(TextOf(rq.category)))
        q2 == AddFilter(q1, rq.supplier_id # NoneVal, "supplier_id",
                        IntV(ValueOf(rq.supplier_id)))
        q3 == AddFilter(q2, rq.discontinued # NoneVal, "discontinued",
                        BoolV(rq.discontinued = Some(TRUE)))
        q4 == SearchFilter(q3, TextTruthy(rq.search),
                           TextV(Wildcard(TextOf(rq.search))))
    IN  << Fetched(q4),
           [text |-> q4.text \o <<Placeholder(q4.param_index, "limit"),
                                  Placeholder(q4.param_index + 1, "offset")>>,
            params |-> q4.params \o <<IntV(rq.limit), IntV(rq.offset)>>] >>

\* the arguments of the seven callers, defaults applied
OptionalTexts(s) == {NoneVal, Some(<<>>), Some(s)}
OptionalFlags == {NoneVal, Some(FALSE), Some(TRUE)}

NoFilters ==
    [product_category |-> NoneVal, esg_required |-> FALSE, min_rating |-> 3,
     max_lead_time |-> 30, budget_min |-> NoneVal, budget_max |-> NoneVal,
     limit |-> 10, offset |-> 0, policy_type |-> NoneVal, department |-> NoneVal,
     store_id |-> NoneVal, product_id |-> NoneVal, category_name |-> NoneVal,
     category |-> NoneVal, low_stock_threshold |-> 10, supplier_id |-> NoneVal,
     discontinued |-> NoneVal, search |-> NoneVal]

Built(name, rq, queries) ==
    Return(name, rq, "none", [queries |-> queries])

build_find_suppliers_for_request ==
    \E c \in OptionalTexts(<<"T", "o", "o", "l", "s">>), e \in BOOLEAN,
       lo \in {NoneVal, Some(0), Some(100)}, hi \in {NoneVal, Some(500)} :
        LET rq == [NoFilters EXCEPT !.product_category = c, !.esg_required = e,
                                    !.budget_min = lo, !.budget_max = hi]
        IN  Built("find_suppliers_for_request", rq,
                  <<find_suppliers_for_request_query(rq)>>)

build_get_company_supplier_policy ==
    \E p \in OptionalTexts(<<"p", "r", "o">>), d \in OptionalTexts(<<"I", "T">>) :
        LET rq == [NoFilters EXCEPT !.policy_type = p, !.department = d]
        IN  Built("get_company_supplier_policy", rq,
                  <<get_company_supplier_policy_query(rq)>>)

build_get_company_order_policy ==
    \E d \in OptionalTexts(<<"I", "T">>) :
        LET rq == [NoFilters EXCEPT !.department = d]
        IN  Built("get_company_order_policy", rq,
                  <<get_company_order_policy_query(rq)>>)

build_get_historical_sales_data ==
    \E s \in {NoneVal, Some(0), Some(1)}, c \in OptionalTexts(<<"T", "o", "o", "l", "s">>) :
        LET rq == [NoFilters EXCEPT !.store_id = s, !.category_name = c]
        IN  Built("get_historical_sales_data", rq,
                  <<get_historical_sales_data_query(rq)>>)

build_get_current_inventory_status ==
    \E s \in {NoneVal, Some(0), Some(1)}, c \in OptionalTexts(<<"T", "o", "o", "l", "s">>),
       t \in {0, 10} :
        LET rq == [NoFilters EXCEPT !.store_id = s, !.category_name = c,
                                    !.low_stock_threshold = t]
        IN  Built("get_current_inventory_status", rq,
                  <<get_current_inventory_status_query(rq)>>)

build_get_inventory ==
    \E s \in {NoneVal, Some(0), Some(1)}, p \in {NoneVal, Some(2)},
       c \in OptionalTexts(<<"T", "o", "o", "l", "s">>), l \in {1, 100} :
        LET rq == [NoFilters EXCEPT !.store_id = s, !.product_id = p, !.category = c,
                                    !.limit = l]
        IN  Built("get_inventory", rq, get_inventory_queries(rq))

build_get_products ==
    \E c \in OptionalTexts(<<"T", "o", "o", "l", "s">>), s \in {NoneVal, Some(3)},
       d \in OptionalFlags, q \in OptionalTexts(<<"s", "a", "w">>), o \in {0, 20} :
        LET rq == [NoFilters EXCEPT !.category = c, !.supplier_id = s,
                                    !.discontinued = d, !.search = q, !.offset = o]
        IN  Built("get_products", rq, get_products_queries(rq))

\* the value a placeholder written by the filter "by" stands for
BoundValue(rq, by) ==
    CASE by = "min_rating" -> IntV(rq.min_rating)
      [] by = "max_lead_time" -> IntV(rq.max_lead_time)
      [] by = "esg_required" -> BoolV(rq.esg_required)
      [] by = "product_category" -> TextV(TextOf(rq.product_category))
      [] by = "budget_min" -> IntV(ValueOf(rq.budget_min))
      [] by = "budget_max" -> IntV(ValueOf(rq.budget_max))
      [] by = "limit" -> IntV(rq.limit)
      [] by = "offset" -> IntV(rq.offset)
      [] by = "policy_type" -> TextV(TextOf(rq.policy_type))
      [] by = "department" -> TextV(TextOf(rq.department))
      [] by = "store_id" -> IntV(ValueOf(rq.store_id))
      [] by = "product_id" -> IntV(ValueOf(rq.product_id))
      [] by = "category_name" -> TextV(TextOf(rq.category_name))
      [] by = "category" -> TextV(TextOf(rq.category))
      [] by = "low_stock_threshold" -> IntV(rq.low_stock_threshold)
      [] by = "supplier_id" -> IntV(ValueOf(rq.supplier_id))
      [] by = "discontinued" -> BoolV(rq.discontinued = Some(TRUE))
      [] by = "search" -> TextV(Wildcard(TextOf(rq.search)))

BuilderNames ==
    {"find_suppliers_for_request", "get_company_supplier_policy",
     "get_company_order_policy", "get_historical_sales_data",
     "get_current_inventory_status", "get_inventory", "get_products"}

QueriesBuilt == endpoint \in BuilderNames /\ "queries" \in DOMAIN body

PlaceholdersOf(q) == {q.text[i].n : i \in 1..Len(q.text)}

\* C26: in every query a builder hands to the connection the placeholders of
\* the text are exactly $1..$k, k the number of bound parameters, and the
\* parameter at each placeholder's position is the value of the filter,
\* threshold, limit or offset that wrote the placeholder
C26_PlaceholdersBound ==
    QueriesBuilt =>
        \A j \in 1..Len(body.queries) :
            LET q == body.queries[j]
            IN  /\ PlaceholdersOf(q) = 1..Len(q.params)
                /\ \A i \in 1..Len(q.text) :
                       /\ q.text[i].n \in 1..Len(q.params)
                       /\ q.params[q.text[i].n] = BoundValue(request, q.text[i].by)

\* find_suppliers_for_request with every optional filter supplied: $1..$7
C26_AllFilters ==
    /\ QueriesBuilt
    /\ endpoint = "find_suppliers_for_request"
    /\ request.esg_required
    /\ TextTruthy(request.product_category)
    /\ request.budget_min = Some(0)
    /\ request.budget_max # NoneVal
    /\ Len(body.queries[1].params) = 7
    /\ body.queries[1].text[7].n = 7
    /\ body.queries[1].text[7].by = "limit"

(***************************************************************************)
(* The get_multiple_table_schemas tool of app/mcp/sales_server.py and the  *)
(* schema methods of the SQLite provider.  The tool is served between      *)
(* create_pool and close_engine of run_http_server, so the provider has    *)
(* its session factory.  Each PRAGMA returns columns, returns none (no     *)
(* such table in the file) or raises.                                      *)
(***************************************************************************)
MaxNames == 3

valid_tables ==
    {"customers", "stores", "categories", "product_types", "products", "orders",
     "order_items", "inventory", "suppliers", "supplier_performance",
     "procurement_requests", "company_policies", "supplier_contracts", "approvers",
     "notifications", "product_image_embeddings", "product_description_embeddings"}

\* the names a caller sends: two of the list and two that are not on it
RequestedNames == {"products", "orders", "sqlite_master", "Products"}
PragmaOutcomes == {"columns", "no_columns", "raises"}

\* sales_analysis_sqlite.py 132-169: the statement issued, if any, and the
\* dict returned; every exception is turned into an error dict
get_table_schema(table_name, outcome) ==
    IF ~async_session_factory
    THEN [statements |-> <<>>, schema |-> "error"]
    ELSE [statements |-> <<table_name>>,
          schema |-> IF outcome = "columns" THEN "schema" ELSE "error"]

RECURSIVE Concat(_)
Concat(seqs) == IF seqs = <<>> THEN <<>> ELSE Head(seqs) \o Concat(Tail(seqs))

\* sales_analysis_sqlite.py 210-226
get_table_metadata_from_list(table_names, outcomes) ==
    IF table_names = <<>>
    THEN [error |-> TRUE, statements |-> <<>>, schemas |-> <<>>]
    ELSE LET each == [i \in 1..Len(table_names) |->
                          get_table_schema(table_names[i], outcomes[i])]
         IN  [error |-> FALSE,
              statements |-> Concat([i \in 1..Len(each) |-> each[i].statements]),
              schemas |-> [i \in 1..Len(each) |-> each[i].schema]]

\* invalid_tables that lets the catalog table through
invalid_tablesMutCatalog(table_names) ==
    SelectSeq(table_names, LAMBDA name : name \notin valid_tables \cup {"sqlite_master"})

\* sales_server.py 105
invalid_tables(table_names) ==
    SelectSeq(table_names, LAMBDA name : name \notin valid_tables)

ToolError == [error |-> TRUE, statements |-> <<>>, schemas |-> <<>>]

\* sales_server.py 59-121
get_multiple_table_schemas ==
    \E n \in 0..MaxNames :
      \E table_names \in [1..n -> RequestedNames], outcomes \in [1..n -> PragmaOutcomes] :
        /\ invalid_tables(table_names) # <<>> => outcomes = [i \in 1..n |-> "columns"]
        /\ Return("get_multiple_table_schemas",
                  [table_names |-> table_names, outcomes |-> outcomes], "none",
                  IF table_names = <<>> THEN ToolError
                  ELSE IF invalid_tables(table_names) # <<>> THEN ToolError
                  ELSE get_table_metadata_from_list(table_names, outcomes))

SchemasCalled == endpoint = "get_multiple_table_schemas"

NamesOf(s) == {s[i] : i \in 1..Len(s)}

\* C27: the tool issues a schema query for no name outside valid_tables; an
\* empty list, or a list with at least one name not in valid_tables, gives
\* an error and no schema query at all; any other list gives one schema
\* query per requested table, in request order
C27_WhitelistOnly ==
    SchemasCalled =>
        /\ NamesOf(body.statements) \subseteq valid_tables
        /\ IF \/ request.table_names = <<>>
              \/ ~(NamesOf(request.table_names) \subseteq valid_tables)
           THEN body.error /\ body.statements = <<>>
           ELSE ~body.error /\ body.statements = request.table_names

\* a valid name followed by an invalid one: nothing is queried
C27_MixedRejected ==
    /\ SchemasCalled
    /\ request.table_names = <<"products", "sqlite_master">>
    /\ body.error
    /\ body.statements = <<>>

(***************************************************************************)
(* Row-level security.  A provider query method acquires a connection,     *)
(* sets the session variable app.current_rls_user_id on it and runs its    *)
(* data query on it.  The database answers the data query by the value of  *)
(* the session variable of the connection (db maps each user to the rows   *)
(* it may see).  The tools of mcp_server/supplier_mcp_server.py read the   *)
(* x-rls-user-id header of the request.                                    *)
(***************************************************************************)
RLS_USER_ID == "00000000-0000-0000-0000-000000000000"
OtherUser == "7a1c0f3e-0000-4000-8000-000000000001"
RlsUsers == {RLS_USER_ID, OtherUser}

\* the x-rls-user-id header: absent, or a GUID
Headers == {NoneVal} \cup {Some(u) : u \in RlsUsers}

Connections == 1..PoolMaxSize

\* supplier_mcp_server.py 65-71
get_rls_user_id(header) ==
    IF header = NoneVal THEN "00000000-0000-0000-0000-000000000000" ELSE header[1]

Statement(c, sql, arg) == [conn |-> c, sql |-> sql, arg |-> arg]

\* a query method that sets the session variable to user: get_connection,
\* set_config, the data query and the envelope; every exception gives the
\* error envelope, and an acquired connection is released
QueryAs(user, env) ==
    IF ProviderConnectionExc(env.acquire_ok) # "none"
    THEN [statements |-> <<>>, envelope |-> ErrorEnvelope, released |-> FALSE]
    ELSE LET set == Statement(env.conn, "set_config", user)
             query == Statement(env.conn, "query", user)
         IN  IF ~env.set_config_ok
             THEN [statements |-> <<set>>, envelope |-> ErrorEnvelope, released |-> TRUE]
             ELSE [statements |-> <<set, query>>,
                   envelope |-> IF env.fetch_ok THEN PgEnvelope(env.db[user])
                                ELSE ErrorEnvelope,
                   released |-> TRUE]

\* supplier_postgres.py 173-282 and the eight methods built like it
QueryMethod(env) == QueryAs(RLS_USER_ID, env)

\* a tool that hands the header's user to the provider
SupplierToolMutForwards(header, env) ==
    [logged |-> get_rls_user_id(header)] @@ QueryAs(get_rls_user_id(header), env)

\* supplier_mcp_server.py 131-151: rls_user_id is logged, the provider is
\* called with the tool's arguments alone
SupplierTool(header, env) ==
    [logged |-> get_rls_user_id(header)] @@ QueryMethod(env)

\* what the call meets: the connection the pool hands out, which of the
\* awaits raise, and the rows each user may see
Environments ==
    [conn : Connections, acquire_ok : BOOLEAN, set_config_ok : BOOLEAN,
     fetch_ok : BOOLEAN, db : [RlsUsers -> {<<>>, <<Record(1, 1)>>}]]

SupplierTools ==
    {"find_suppliers_for_request", "get_supplier_history_and_performance",
     "get_supplier_contract", "get_company_supplier_policy"}

FinanceMethods ==
    {"get_company_order_policy", "get_supplier_contract", "get_historical_sales_data",
     "get_current_inventory_status"}

\* a tool of the supplier server is called
call_supplier_tool ==
    \E tool \in SupplierTools, header \in Headers, env \in Environments :
        Return("tool:" \o tool, [x_rls_user_id |-> header, env |-> env], "none",
               SupplierTool(header, env))

\* a query method of the finance provider is called
call_finance_method ==
    \E method \in FinanceMethods, env \in Environments :
        Return("finance:" \o method, [x_rls_user_id |-> NoneVal, env |-> env], "none",
               [logged |-> "none"] @@ QueryMethod(env))

(***************************************************************************)
(* One call is looked at: a query is built, a tool is called or a query    *)
(* method runs, on a provider before or after create_pool.                 *)
(***************************************************************************)
NextCalls ==
    \/ build_find_suppliers_for_request
    \/ build_get_company_supplier_policy
    \/ build_get_company_order_policy
    \/ build_get_historical_sales_data
    \/ build_get_current_inventory_status
    \/ build_get_inventory
    \/ build_get_products
    \/ get_multiple_table_schemas
    \/ call_supplier_tool
    \/ call_finance_method

\* run_http_server of the sales server has created the engine
InitCalls ==
    /\ InitWS
    /\ WorkflowIdle
    /\ deployment = "mcp_server"
    /\ connection_pool \in {0, 1}
    /\ poolsCreated = connection_pool
    /\ DBIdle
    /\ async_session_factory = TRUE
    /\ products = SampleProducts
    /\ inventory = SampleInventory
    /\ suppliers = SampleSuppliers
    /\ ApiIdle

SpecCalls == InitCalls /\ [][NextCalls]_vars

QueryMethodCalled == "statements" \in DOMAIN body /\ "envelope" \in DOMAIN body

SupplierToolCalled == QueryMethodCalled /\ request.x_rls_user_id \in Headers /\ body.logged # "none"

\* C28: a data query runs only after set_config has set the session variable
\* to the empty GUID on the same connection, and a supplier tool call returns
\* the envelope it returns with any other x-rls-user-id header or none
C28_EmptyGuidOnly ==
    QueryMethodCalled =>
        /\ \A j \in 1..Len(body.statements) :
               /\ body.statements[j].sql = "set_config" =>
                      body.statements[j].arg = RLS_USER_ID
               /\ body.statements[j].sql = "query" =>
                      \E i \in 1..(j - 1) :
                          body.statements[i] =
                              Statement(body.statements[j].conn, "set_config", RLS_USER_ID)
        /\ SupplierToolCalled =>
               \A header \in Headers :
                   SupplierTool(header, request.env).envelope = body.envelope

\* a call with another user's GUID in the header, on a database that shows
\* that user other rows, returns the rows of the empty GUID
C28_OtherUserHeader ==
    /\ SupplierToolCalled
    /\ request.x_rls_user_id = Some(OtherUser)
    /\ body.logged = OtherUser
    /\ request.env.db[OtherUser] # request.env.db[RLS_USER_ID]
    /\ Len(body.statements) = 2
    /\ body.envelope = PgEnvelope(request.env.db[RLS_USER_ID])

(***************************************************************************)
(* The workflows.  WorkflowBuilder gives the graph: the start executor     *)
(* receives the argument of run_stream, and a message an executor sends    *)
(* is delivered to the targets of its outgoing edges.  A handler is        *)
(* invoked once for each delivered message; its awaits (agent.run, the     *)
(* provider) return or raise, and an exception that leaves a handler       *)
(* fails the run.  The run ends when no message is left to handle.         *)
(***************************************************************************)
StockWorkflow == "app.agents.stock"
ShopWorkflow == "github_shop_agents.stock"
Workflows == {StockWorkflow, ShopWorkflow}

\* Edges with an edge from the start executor to the summarizer added
EdgesMutShortcut(w) ==
    LET ids == ExecutorIds(w)
    IN  {<<ids[1], ids[2]>>, <<ids[2], ids[3]>>, <<ids[1], ids[3]>>}

\* stock.py 144, github_shop_agents/stock.py 147: add_edge(writer, policy)
\* .add_edge(policy, summarizer)
Edges(w) ==
    LET ids == ExecutorIds(w)
    IN  {<<ids[1], ids[2]>>, <<ids[2], ids[3]>>}

\* set_start_executor(writer)
StartExecutor(w) == ExecutorIds(w)[1]

Targets(w, e) == {x \in AllExecutors : <<e, x>> \in Edges(w)}

Message(by, content) == [by |-> by, content |-> content]

NotHandling(e) == handling[e] = NoneVal

\* ctx.send_message(content) in the handler of e
SendMessage(e, content) ==
    /\ sent' = [sent EXCEPT ![e] = Append(@, Message(e, content))]
    /\ inbox' = [x \in AllExecutors |->
                    IF x \in Targets(workflow, e)
                    THEN Append(inbox[x], Message(e, content))
                    ELSE inbox[x]]

\* the handler of e returns
HandlerReturns(e) ==
    /\ handling' = [handling EXCEPT ![e] = NoneVal]
    /\ returned' = Append(returned, e)
    /\ UNCHANGED <<workflow, run, invoked>>

\* an exception leaves the handler of e
HandlerRaises(e) ==
    /\ handling' = [handling EXCEPT ![e] = NoneVal]
    /\ run' = "failed"
    /\ UNCHANGED <<workflow, inbox, invoked, sent, returned, outputs>>

InputTexts == {"check stock", "check stock\n\nStore ID: 1"}

\* app.py 1366-1370: workflow.run_stream(input)
run_stream ==
    /\ run = "idle"
    /\ \E text \in InputTexts :
          inbox' = [inbox EXCEPT ![StartExecutor(workflow)] =
                       <<Message("input", text)>>]
    /\ run' = "running"
    /\ UNCHANGED <<workflow, handling, invoked, sent, returned, outputs>>
    /\ UNCHANGED <<wsVars, dbVars, apiVars>>

\* a delivered message is handed to the handler of e
Invoke(e) ==
    /\ run = "running"
    /\ inbox[e] # <<>>
    /\ NotHandling(e)
    /\ handling' = [handling EXCEPT ![e] = Some(Head(inbox[e]))]
    /\ inbox' = [inbox EXCEPT ![e] = Tail(@)]
    /\ invoked' = [invoked EXCEPT ![e] = Append(@, Head(inbox[e]))]
    /\ UNCHANGED <<workflow, run, sent, returned, outputs>>
    /\ UNCHANGED <<wsVars, dbVars, apiVars>>

Running(w, e) == workflow = w /\ run = "running" /\ ~NotHandling(e)

\* stock.py 66-71
DepartmentExtractor_handle ==
    /\ Running(StockWorkflow, "writer")
    /\ \/ \E department \in {"Finance", "Operations"} :
            /\ SendMessage("writer", department)
            /\ HandlerReturns("writer")
            /\ UNCHANGED outputs
       \/ HandlerRaises("writer")
    /\ UNCHANGED <<wsVars, dbVars, apiVars>>

\* stock.py 88-97: create_pool raises, or get_company_order_policy returns
\* an envelope, the error envelope included
PolicyExecutor_handle ==
    /\ Running(StockWorkflow, "policy_executor")
    /\ \/ \E envelope \in {"policies", "no policies", "err"} :
            /\ SendMessage("policy_executor", envelope)
            /\ HandlerReturns("policy_executor")
            /\ UNCHANGED outputs
       \/ HandlerRaises("policy_executor")
    /\ UNCHANGED <<wsVars, dbVars, apiVars>>

\* stock.py 119-127
Summarizer_handle ==
    /\ Running(StockWorkflow, "summarizer")
    /\ \/ \E text \in {"summary", ""} :
            /\ outputs' = Append(outputs, Message("summarizer", text))
            /\ HandlerReturns("summarizer")
            /\ UNCHANGED <<inbox, sent>>
       \/ HandlerRaises("summarizer")
    /\ UNCHANGED <<wsVars, dbVars, apiVars>>

\* github_shop_agents/stock.py 74-80
StockExtractor_handle ==
    /\ Running(ShopWorkflow, "Stock Analyzer")
    /\ \/ \E collection \in {"no items", "items"} :
            /\ SendMessage("Stock Analyzer", collection)
            /\ HandlerReturns("Stock Analyzer")
            /\ UNCHANGED outputs
       \/ HandlerRaises("Stock Analyzer")
    /\ UNCHANGED <<wsVars, dbVars, apiVars>>

\* github_shop_agents/stock.py 98-104
ContextExecutor_handle ==
    /\ Running(ShopWorkflow, "Context Analyzer")
    /\ \/ \E collection \in {"no items", "items", "items by priority"} :
            /\ SendMessage("Context Analyzer", collection)
            /\ HandlerReturns("Context Analyzer")
            /\ UNCHANGED outputs
       \/ HandlerRaises("Context Analyzer")
    /\ UNCHANGED <<wsVars, dbVars, apiVars>>

\* github_shop_agents/stock.py 128-137: the messages of the response are
\* sent (the summarizer has no outgoing edge), then the output is yielded
RestockSummarizer_handle ==
    /\ Running(ShopWorkflow, "Summarizer")
    /\ \/ \E text \in {"summary", ""} :
            /\ SendMessage("Summarizer", "messages")
            /\ outputs' = Append(outputs, Message("Summarizer", text))
            /\ HandlerReturns("Summarizer")
       \/ HandlerRaises("Summarizer")
    /\ UNCHANGED <<wsVars, dbVars, apiVars>>

\* no message is left and no handler runs: the stream of run_stream ends
RunEnds ==
    /\ run = "running"
    /\ \A e \in AllExecutors : inbox[e] = <<>> /\ NotHandling(e)
    /\ run' = "completed"
    /\ UNCHANGED <<workflow, inbox, handling, invoked, sent, returned, outputs>>
    /\ UNCHANGED <<wsVars, dbVars, apiVars>>

NextWorkflow ==
    \/ run_stream
    \/ \E e \in AllExecutors : Invoke(e)
    \/ DepartmentExtractor_handle
    \/ PolicyExecutor_handle
    \/ Summarizer_handle
    \/ StockExtractor_handle
    \/ ContextExecutor_handle
    \/ RestockSummarizer_handle
    \/ RunEnds

\* either workflow, built and not run; nothing else is looked at
InitWorkflow ==
    /\ InitWS
    /\ DBOff
    /\ ApiOff
    /\ \E w \in Workflows : WorkflowBuilt(w)

SpecWorkflow == InitWorkflow /\ [][NextWorkflow]_vars

FirstExecutor == ExecutorIds(workflow)[1]
SecondExecutor == ExecutorIds(workflow)[2]
LastExecutor == ExecutorIds(workflow)[3]

HasReturned(e) == \E i \in 1..Len(returned) : returned[i] = e

\* the pipeline order: what each executor is invoked with, and who yields
PipelineOrder ==
    /\ \A e \in AllExecutors : Len(invoked[e]) <= 1
    /\ \A e \in AllExecutors \ {FirstExecutor, SecondExecutor, LastExecutor} : invoked[e] = <<>>
    /\ \A i \in 1..Len(invoked[FirstExecutor]) : invoked[FirstExecutor][i].by = "input"
    /\ Len(sent[FirstExecutor]) <= 1 /\ Len(sent[SecondExecutor]) <= 1
    /\ invoked[SecondExecutor] # <<>> => invoked[SecondExecutor] = sent[FirstExecutor] /\ HasReturned(FirstExecutor)
    /\ invoked[LastExecutor] # <<>> => invoked[LastExecutor] = sent[SecondExecutor] /\ HasReturned(SecondExecutor)
    /\ Len(outputs) <= 1
    /\ \A i \in 1..Len(outputs) :
           /\ outputs[i].by = LastExecutor
           /\ HasReturned(FirstExecutor) /\ HasReturned(SecondExecutor)
           /\ invoked[LastExecutor] = sent[SecondExecutor]

\* C21 as stated: in every run that has ended each executor has handled
\* exactly one message
C21_Original ==
    /\ PipelineOrder
    /\ run \in {"completed", "failed"} =>
           \A e \in {FirstExecutor, SecondExecutor, LastExecutor} : Len(invoked[e]) = 1

\* C21: the first executor handles the input, the second only the one
\* message the first sent, the summarizer only the one message the second
\* sent; no executor handles more than one message in a run, and in a run
\* that ends with no handler having raised each handles exactly one; the
\* one output is yielded by the summarizer after the other two returned
C21_Pipeline ==
    /\ PipelineOrder
    /\ run = "completed" =>
           /\ \A e \in {FirstExecutor, SecondExecutor, LastExecutor} : Len(invoked[e]) = 1
           /\ returned = ExecutorIds(workflow)
           /\ Len(outputs) = 1
    /\ run = "failed" => outputs = <<>>

\* a run that ended with the output yielded
C21_RunCompleted ==
    /\ run = "completed"
    /\ returned = ExecutorIds(workflow)
    /\ Len(outputs) = 1
    /\ invoked[LastExecutor] = sent[SecondExecutor]

====
